---- MODULE Spec2Model ----
(***************************************************************************)
(* Model of the seed-data generator of seeding/seed.js (generateData,      *)
(* ean13, main) and of the CSV writer/reader of seeding/csv_writer.js.     *)
(*                                                                         *)
(* Strings are sequences of one-character strings.  Money is counted in    *)
(* cents (retailPrice 2.5 is 250).  A value r in [0,1) returned by the     *)
(* random source is the integer k with r = k / RngDen.                     *)
(***************************************************************************)
EXTENDS Integers, Sequences, FiniteSets, TLC

VARIABLES
  pc,             \* position of the run: in main / generateData / csv code
  args,           \* the argument object of generateData (as passed)
  n_offers,       \* the local n_offers of generateData (reassigned)
  categories, usedCatNames, name,
  products, usedEans, cur,
  stores, usedStoreNames, usedUrls, scand,
  allPairs, i, sampled, offers,
  warnings,       \* console.warn lines of generateData, in order
  error,          \* the error a call ended with, or NoError
  uuidClock,      \* number of uuidv7() calls since the machine started
  seeded,         \* main line 527: SEED is set and is a number
  run,            \* 1: first process, 2: a second process with the same SEED
  rngLog, fakerLog, rngPos, fakerPos,  \* the streams the seed determines
  first,          \* what the first run returned
  outputDir,      \* the directory ./output exists
  files,          \* ./output: file name -> text, or NoFile
  loaded,         \* outcome of readAllFromCSVs
  db,             \* table or collection name -> rows or documents stored
  cell, text, parsed,  \* a lone cell: its value, its CSV text, the rows read
  sheet,          \* rows of cells and how their text is laid out
  impl,           \* which of the two generator sources is running
  mode,           \* SELECTED_MODE of the process
  pg,             \* one call of loadPostgres, query by query
  conn,           \* mongodb_client.js: ready, the connect attempt, the callers
  req,            \* one paged GET request of the REST API
  ui,             \* the admin page: its state, its requests, the backend's data
  eanStream, eanOut  \* a lone call of ean13: values drawn so far, result

genVars  == <<args, n_offers, categories, usedCatNames, name, products,
              usedEans, cur, stores, usedStoreNames, usedUrls, scand,
              allPairs, i, sampled, offers, warnings, error>>
seedVars == <<seeded, run, rngLog, fakerLog, rngPos, fakerPos, first>>
csvVars  == <<outputDir, files, loaded>>
cellVars == <<cell, text, parsed, sheet>>
implVars == <<impl, mode>>
auxVars  == <<pg, conn, req, ui>>
dbVars   == <<db>>
eanVars  == <<eanStream, eanOut>>
\* the state of the seeding program
seedAll  == <<pc, genVars, uuidClock, seedVars, csvVars, dbVars, cellVars, implVars, eanVars>>
vars     == <<pc, genVars, uuidClock, seedVars, csvVars, dbVars, cellVars,
              implVars, auxVars, eanVars>>

-----------------------------------------------------------------------------
(* Bounds of the model *)
MaxCategories == 2
MaxProducts   == 2
MaxStores     == 2
MaxOffers     == 3
MaxPairs      == 4
MaxNonZero    == 2
MaxRngLog     == 43
MaxFakerLog   == 10
MaxCell       == 3
MaxRows       == 2
MaxCallers    == 2
MaxCalls      == 2
MaxPage       == 3
MaxItems      == 25
MaxRequests   == 3
MaxMutations  == 2

(* Program constants *)
EanLen   == 12
NameMax  == 64
UrlMax   == 128
AmountN  == 251
RngDen   == 1000

NoError == "none"
NoName  == <<>>
Null    == [id |-> <<>>, name |-> <<>>]
NoCur   == [cat |-> Null, pname |-> <<>>, retail |-> 0, e |-> <<>>]
NoCand  == [sname |-> <<>>, url |-> <<>>]
NoFile  == <<"\\absent">>
NoSheet == [rows |-> <<>>, eol |-> <<>>, final |-> FALSE]

-----------------------------------------------------------------------------
(* Characters and strings *)
Lower == <<"a","b","c","d","e","f","g","h","i","j","k","l","m",
           "n","o","p","q","r","s","t","u","v","w","x","y","z">>
Upper == <<"A","B","C","D","E","F","G","H","I","J","K","L","M",
           "N","O","P","Q","R","S","T","U","V","W","X","Y","Z">>
DigitChars == <<"0","1","2","3","4","5","6","7","8","9">>

Range(s) == { s[k] : k \in DOMAIN s }

IsLower(c) == c \in Range(Lower)
ToUpperCase(c) ==
  IF IsLower(c) THEN Upper[CHOOSE k \in DOMAIN Lower : Lower[k] = c] ELSE c
IsWordChar(c) == c \in Range(Lower) \cup Range(Upper) \cup Range(DigitChars) \cup {"_"}
IsSpace(c) == c \in {" ", "\t", "\n", "\r"}

Min(a, b) == IF a < b THEN a ELSE b

\* String.prototype.slice(0, n)
Slice(s, n) == SubSeq(s, 1, Min(Len(s), n))

\* s.replace(/^[a-z]/, m => m.toUpperCase())
CapFirst(s) ==
  IF Len(s) > 0 /\ IsLower(s[1]) THEN <<ToUpperCase(s[1])>> \o Tail(s) ELSE s

\* s.replace(/\b\w/g, m => m.toUpperCase())
CapWords(s) ==
  [k \in DOMAIN s |->
     IF IsWordChar(s[k]) /\ (k = 1 \/ ~IsWordChar(s[k-1]))
     THEN ToUpperCase(s[k]) ELSE s[k]]

\* s.replace(/\s+/g, ' ')
RECURSIVE CollapseWs(_)
CollapseWs(s) ==
  IF s = <<>> THEN <<>>
  ELSE IF IsSpace(s[1])
       THEN IF Len(s) > 1 /\ IsSpace(s[2]) THEN CollapseWs(Tail(s))
            ELSE <<" ">> \o CollapseWs(Tail(s))
       ELSE <<s[1]>> \o CollapseWs(Tail(s))

\* s.trim()
RECURSIVE TrimLeft(_)
TrimLeft(s) == IF s # <<>> /\ IsSpace(s[1]) THEN TrimLeft(Tail(s)) ELSE s
RECURSIVE TrimRight(_)
TrimRight(s) ==
  IF s # <<>> /\ IsSpace(s[Len(s)]) THEN TrimRight(SubSeq(s, 1, Len(s) - 1)) ELSE s
Trim(s) == TrimRight(TrimLeft(s))

\* decimal digits of a natural number
RECURSIVE Digits(_)
Digits(n) ==
  IF n < 10 THEN <<DigitChars[n + 1]>>
  ELSE Digits(n \div 10) \o <<DigitChars[(n % 10) + 1]>>

\* Array.prototype.join
RECURSIVE Join(_, _)
Join(parts, sep) ==
  IF parts = <<>> THEN <<>>
  ELSE IF Len(parts) = 1 THEN parts[1]
  ELSE parts[1] \o sep \o Join(Tail(parts), sep)

\* Math.round(n / d) for n >= 0, d > 0
RoundDiv(n, d) == (2 * n + d) \div (2 * d)
\* Math.floor(r * n) for r = k / RngDen
FloorMul(k, n) == (k * n) \div RngDen

-----------------------------------------------------------------------------
(* What the environment can hand to the generator *)

\* faker.word.noun() in the category loop
Nouns     == { <<"o","x">>, <<"e","l">> }
\* faker.company.name(), faker.internet.domainName(), faker.lorem.slug()
\* in the store loop
Companies == { <<"L","i",","," ","W","u">>, <<"O","z">> }
Domains   == { <<"a",".","i","o">>, <<"b",".","i","o">> }
Slugs     == { <<"s">> }

\* Values of rng() tried at each call site, as numerators over RngDen.
\* One pass of the product loop up to its EAN: rng() for the category,
\* faker.company.name(), faker.color.human(), faker.word.noun(), rng() for
\* the retail price
ProductInputs ==
  { [rc |-> 0,   company |-> <<"L","i",","," ","W","u">>, color |-> <<"r","e","d">>,
     noun |-> <<"o","x">>, rr |-> 0],
    [rc |-> 999, company |-> <<"O","z">>, color |-> <<"t","a","n">>,
     noun |-> <<"e","l">>, rr |-> 999] }
\* the twelve values one call of ean13 draws inside generateData
EanStreams == { [k \in 1..EanLen |-> v] : v \in {0, 100, 750} }
\* rng() in the shuffle loop: the least values whose floor(r * 4) is 0, 1, 2, 3
ShuffleRng == { (k * RngDen + 3) \div 4 : k \in 0..3 }
\* the two values of rng() of one pass of the offer loop
OfferRng   == { <<0, 0>>, <<999, 999>> }
\* rng() in a lone call of ean13
DigitRng   == { 100 * d : d \in 0..9 }

\* uuidv7(): unique and never repeated, not derived from the seed
Uuid(n) == <<"u">> \o Digits(n)

\* the two sources of generateData
SeedJs  == "seeding/seed.js"
Part000 == "unnamed/part_000"
\* part_000: uuidv4(), a fresh random id
Uuid4(n) == <<"r">> \o Digits(n)
\* seed.js lines 113, 132, 151; part_000 the same lines of its generateData
NewId(n) == IF impl = Part000 THEN Uuid4(n) ELSE Uuid(n)
\* seed.js lines 131-137; part_000 names the reference categoryId
ProductRecord(id, catId, e, pname, retail) ==
  IF impl = Part000
  THEN [id |-> id, categoryId |-> catId, ean |-> e, name |-> pname,
        retailPrice |-> retail]
  ELSE [id |-> id, category_id |-> catId, ean |-> e, name |-> pname,
        retailPrice |-> retail]
\* part_000 with the two references exchanged
OfferRecord_Swapped(pair, price, amount) ==
  IF impl = Part000
  THEN [storeId |-> pair[2], productId |-> pair[1], price |-> price, amount |-> amount]
  ELSE [store_id |-> pair[1], product_id |-> pair[2], price |-> price,
        amount |-> amount]
\* seed.js lines 176-180; part_000 names the references storeId, productId
OfferRecord(pair, price, amount) ==
  IF impl = Part000
  THEN [storeId |-> pair[1], productId |-> pair[2], price |-> price, amount |-> amount]
  ELSE [store_id |-> pair[1], product_id |-> pair[2], price |-> price,
        amount |-> amount]

-----------------------------------------------------------------------------
(* The random streams.  Math.random (seeded by seedrandom, main line 530)  *)
(* and faker (faker.seed, line 529) return what the seed determines: the   *)
(* first run of a seed reveals the stream, a second run with the same seed *)
(* reads the same values again.  Without a seed every value is free.       *)
(* A second call in the same process (run = 3) that is handed an rng which *)
(* returns the values of the first call again reads the same values of     *)
(* rng(); faker, seeded once by main, goes on in its stream and what it    *)
(* returns is not what the first call got.                                  *)
Draws(rs, fs) ==
  /\ run \in {2, 3} => /\ rngPos + Len(rs) <= Len(rngLog)
                       /\ rs = SubSeq(rngLog, rngPos + 1, rngPos + Len(rs))
  /\ run = 2 => /\ fakerPos + Len(fs) <= Len(fakerLog)
                /\ fs = SubSeq(fakerLog, fakerPos + 1, fakerPos + Len(fs))
  /\ seeded /\ run = 1 => /\ Len(rngLog) + Len(rs) <= MaxRngLog
                          /\ Len(fakerLog) + Len(fs) <= MaxFakerLog
  /\ rngLog'   = IF seeded /\ run = 1 THEN rngLog \o rs ELSE rngLog
  /\ fakerLog' = IF seeded /\ run = 1 THEN fakerLog \o fs ELSE fakerLog
  /\ rngPos'   = IF seeded THEN rngPos + Len(rs) ELSE rngPos
  /\ fakerPos' = IF seeded /\ run # 3 THEN fakerPos + Len(fs) ELSE fakerPos
  /\ UNCHANGED <<seeded, run, first>>

-----------------------------------------------------------------------------
(* ean13 *)
SumSeq(s) ==
  LET RECURSIVE Sum(_)
      Sum(k) == IF k > Len(s) THEN 0 ELSE s[k] + Sum(k + 1)
  IN Sum(1)

\* digits.filter((_, i) => i % 2 === r) with 0-based i
FilterParity(digits, r) ==
  LET RECURSIVE F(_)
      F(k) == IF k > Len(digits) THEN <<>>
              ELSE IF (k - 1) % 2 = r THEN <<digits[k]>> \o F(k + 1) ELSE F(k + 1)
  IN F(1)

\* the outer % 10 left out
Checksum_NoWrap(sum_odd, sum_even) == 10 - ((sum_odd + 3 * sum_even) % 10)
\* line 86
Checksum(sum_odd, sum_even) == (10 - ((sum_odd + 3 * sum_even) % 10)) % 10

\* lines 83-87: the string of the twelve drawn digits and the checksum
ean13(rs) ==
  LET digits   == [k \in 1..EanLen |-> FloorMul(rs[k], 10)]
      sum_odd  == SumSeq(FilterParity(digits, 0))
      sum_even == SumSeq(FilterParity(digits, 1))
      checksum == Checksum(sum_odd, sum_even)
      all      == digits \o <<checksum>>
  IN Join([k \in DOMAIN all |-> Digits(all[k])], <<>>)

-----------------------------------------------------------------------------
(* generateData *)

Dataset == [categories |-> categories, products |-> products,
            stores |-> stores, offers |-> offers]

\* the entry check compares with 0 in place of 1
NoCategoryForProducts_Negative(a) == a.n_categories < 0 /\ a.n_products > 0
\* line 98
NoCategoryForProducts(a) == a.n_categories < 1 /\ a.n_products > 0
\* && in place of || between the two emptiness tests
OffersImpossible_Both(a) == (a.n_stores = 0 /\ a.n_products = 0) /\ a.n_offers > 0
\* line 101
OffersImpossible(a) == (a.n_stores = 0 \/ a.n_products = 0) /\ a.n_offers > 0

\* lines 98-108: the two entry checks
Validate ==
  /\ pc = "generateData"
  /\ IF NoCategoryForProducts(args)
     THEN /\ pc' = "threw"
          /\ error' = "ConfigError"
          /\ UNCHANGED <<n_offers, warnings>>
     ELSE /\ pc' = "categories"
          /\ IF OffersImpossible(args)
             THEN /\ warnings' = Append(warnings, "zero")
                  /\ n_offers' = 0
             ELSE UNCHANGED <<n_offers, warnings>>
          /\ UNCHANGED error
  /\ UNCHANGED <<args, categories, usedCatNames, name, products, usedEans, cur,
                 stores, usedStoreNames, usedUrls, scand, allPairs, i, sampled,
                 offers, uuidClock, seedVars, csvVars, dbVars, cellVars, implVars, auxVars, eanVars>>

\* line 110
CategoryName(noun) == CapFirst(Slice(noun, NameMax))
\* the membership test left out
CatNameFree_Always(nm, used) == TRUE
\* line 111
CatNameFree(nm, used) == nm \notin used

\* lines 109-110: a pass of the category loop draws its candidate
CategoryDraw ==
  /\ pc = "categories"
  /\ Len(categories) < args.n_categories
  /\ \E noun \in Nouns :
       /\ Draws(<<>>, <<noun>>)
       /\ name' = CategoryName(noun)
  /\ pc' = "category_test"
  /\ UNCHANGED <<args, n_offers, categories, usedCatNames, products, usedEans,
                 cur, stores, usedStoreNames, usedUrls, scand, allPairs, i,
                 sampled, offers, warnings, error, uuidClock, csvVars, dbVars, cellVars, implVars, auxVars, eanVars>>

\* lines 111-114: the candidate is added unless its name is taken
CategoryTest ==
  /\ pc = "category_test"
  /\ IF CatNameFree(name, usedCatNames)
     THEN /\ categories' = Append(categories, [id |-> NewId(uuidClock), name |-> name])
          /\ usedCatNames' = usedCatNames \cup {name}
          /\ uuidClock' = uuidClock + 1
     ELSE UNCHANGED <<categories, usedCatNames, uuidClock>>
  /\ pc' = "categories"
  /\ UNCHANGED <<args, n_offers, name, products, usedEans, cur, stores,
                 usedStoreNames, usedUrls, scand, allPairs, i, sampled, offers,
                 warnings, error, seedVars, csvVars, dbVars, cellVars, implVars, auxVars, eanVars>>

\* line 109: the loop condition fails
CategoriesDone ==
  /\ pc = "categories"
  /\ ~(Len(categories) < args.n_categories)
  /\ pc' = "products"
  /\ name' = NoName
  /\ UNCHANGED <<args, n_offers, categories, usedCatNames, products, usedEans,
                 cur, stores, usedStoreNames, usedUrls, scand, allPairs, i,
                 sampled, offers, warnings, error, uuidClock, seedVars, csvVars, dbVars, cellVars, implVars, auxVars,
                 eanVars>>

\* lines 122-126
ProductName(company, color, noun) ==
  CapWords(Slice(Trim(CollapseWs(company \o <<" ">> \o color \o <<" ">> \o noun)), NameMax))
\* line 127, in cents
RetailPrice(r) == RoundDiv(250 * RngDen + r * (99999 - 250), RngDen)
\* Math.ceil in place of Math.floor: one past the last category for r > 0
PickCategory_Ceil(cats, r) ==
  IF r = 0 THEN cats[1]
  ELSE IF FloorMul(r, Len(cats)) + 2 <= Len(cats) THEN cats[FloorMul(r, Len(cats)) + 2]
  ELSE Null
\* line 121
PickCategory(cats, r) == cats[FloorMul(r, Len(cats)) + 1]
\* the redraw loop left out
EanUsed_Never(e, used) == FALSE
\* line 129
EanUsed(e, used) == e \in used

\* lines 120-128: a pass of the product loop up to the first EAN
ProductDraw ==
  /\ pc = "products"
  /\ Len(products) < args.n_products
  /\ \E in \in ProductInputs, es \in EanStreams :
       LET hasCat == Len(categories) > 0 IN
       /\ Draws((IF hasCat THEN <<in.rc>> ELSE <<>>) \o <<in.rr>> \o es,
                <<in.company, in.color, in.noun>>)
       /\ cur' = [cat    |-> IF hasCat THEN PickCategory(categories, in.rc) ELSE Null,
                  pname  |-> ProductName(in.company, in.color, in.noun),
                  retail |-> RetailPrice(in.rr),
                  e      |-> ean13(es)]
  /\ pc' = "ean"
  /\ UNCHANGED <<args, n_offers, categories, usedCatNames, name, products,
                 usedEans, stores, usedStoreNames, usedUrls, scand, allPairs, i,
                 sampled, offers, warnings, error, uuidClock, csvVars, dbVars, cellVars, implVars, auxVars, eanVars>>

\* line 129: the EAN is taken, draw another
EanRedraw ==
  /\ pc = "ean"
  /\ EanUsed(cur.e, usedEans)
  /\ \E es \in EanStreams :
       /\ Draws(es, <<>>)
       /\ cur' = [cur EXCEPT !.e = ean13(es)]
  /\ UNCHANGED <<pc, args, n_offers, categories, usedCatNames, name, products,
                 usedEans, stores, usedStoreNames, usedUrls, scand, allPairs, i,
                 sampled, offers, warnings, error, uuidClock, csvVars, dbVars, cellVars, implVars, auxVars, eanVars>>

\* lines 130-137: the EAN is new, the product is added
ProductPush ==
  /\ pc = "ean"
  /\ ~EanUsed(cur.e, usedEans)
  /\ usedEans' = usedEans \cup {cur.e}
  /\ LET hasCat == cur.cat # Null IN
     /\ products' = Append(products,
          ProductRecord(NewId(uuidClock),
                        IF hasCat THEN cur.cat.id ELSE NewId(uuidClock + 1),
                        cur.e, cur.pname, cur.retail))
     /\ uuidClock' = IF hasCat THEN uuidClock + 1 ELSE uuidClock + 2
  /\ cur' = NoCur
  /\ pc' = "products"
  /\ UNCHANGED <<args, n_offers, categories, usedCatNames, name, stores,
                 usedStoreNames, usedUrls, scand, allPairs, i, sampled, offers,
                 warnings, error, seedVars, csvVars, dbVars, cellVars, implVars, auxVars, eanVars>>

\* line 120: the loop condition fails
ProductsDone ==
  /\ pc = "products"
  /\ ~(Len(products) < args.n_products)
  /\ pc' = "stores"
  /\ UNCHANGED <<genVars, uuidClock, seedVars, csvVars, dbVars, cellVars, implVars, auxVars, eanVars>>

\* line 145
StoreName(company) == Slice(company \o <<" ","S","t","o","r","e">>, NameMax)
\* line 146
StoreUrl(domain, slug) ==
  Slice(<<"h","t","t","p","s",":","/","/">> \o domain \o <<"/">> \o slug, UrlMax)
\* line 147
\* the test of the name alone
StoreFree_NameOnly(sname, url, names, urls) == sname \notin names
StoreFree(sname, url, names, urls) == sname \notin names /\ url \notin urls

\* lines 144-146: a pass of the store loop draws its candidate
StoreDraw ==
  /\ pc = "stores"
  /\ Len(stores) < args.n_stores
  /\ \E company \in Companies, domain \in Domains, slug \in Slugs :
       /\ Draws(<<>>, <<company, domain, slug>>)
       /\ scand' = [sname |-> StoreName(company), url |-> StoreUrl(domain, slug)]
  /\ pc' = "store_test"
  /\ UNCHANGED <<args, n_offers, categories, usedCatNames, name, products,
                 usedEans, cur, stores, usedStoreNames, usedUrls, allPairs, i,
                 sampled, offers, warnings, error, uuidClock, csvVars, dbVars, cellVars, implVars, auxVars, eanVars>>

\* lines 147-151: the candidate is added unless its name or its url is taken
StoreTest ==
  /\ pc = "store_test"
  /\ IF StoreFree(scand.sname, scand.url, usedStoreNames, usedUrls)
     THEN /\ stores' = Append(stores,
               [id |-> NewId(uuidClock), name |-> scand.sname, url |-> scand.url])
          /\ usedStoreNames' = usedStoreNames \cup {scand.sname}
          /\ usedUrls' = usedUrls \cup {scand.url}
          /\ uuidClock' = uuidClock + 1
     ELSE UNCHANGED <<stores, usedStoreNames, usedUrls, uuidClock>>
  /\ pc' = "stores"
  /\ UNCHANGED <<args, n_offers, categories, usedCatNames, name, products,
                 usedEans, cur, scand, allPairs, i, sampled, offers, warnings,
                 error, seedVars, csvVars, dbVars, cellVars, implVars, auxVars, eanVars>>

\* lines 158-162: the cross product, store-major
\* every pair carrying the retail price of the first product
CrossProduct_FirstPrice(ss, ps) ==
  [k \in 1..(Len(ss) * Len(ps)) |->
     LET s == ss[((k - 1) \div Len(ps)) + 1]
         p == ps[((k - 1) % Len(ps)) + 1]
     IN <<s.id, p.id, ps[1].retailPrice>>]
CrossProduct(ss, ps) ==
  [k \in 1..(Len(ss) * Len(ps)) |->
     LET s == ss[((k - 1) \div Len(ps)) + 1]
         p == ps[((k - 1) % Len(ps)) + 1]
     IN <<s.id, p.id, p.retailPrice>>]

\* line 156
WantOffers(n, ss, ps) == n > 0 /\ Len(ss) > 0 /\ Len(ps) > 0
\* line 164
TooManyOffers(n, max_possible) == n > max_possible

\* lines 144, 155-167: the store loop ends; the pairs are listed and the
\* request is capped
StoresDone ==
  /\ pc = "stores"
  /\ ~(Len(stores) < args.n_stores)
  /\ scand' = NoCand
  /\ IF WantOffers(n_offers, stores, products)
     THEN /\ allPairs' = CrossProduct(stores, products)
          /\ IF TooManyOffers(n_offers, Len(allPairs'))
             THEN /\ warnings' = Append(warnings, "cap")
                  /\ n_offers' = Len(allPairs')
             ELSE UNCHANGED <<n_offers, warnings>>
          /\ i' = Len(allPairs') - 1
          /\ pc' = "shuffle"
     ELSE /\ pc' = "return"
          /\ UNCHANGED <<allPairs, i, n_offers, warnings>>
  /\ UNCHANGED <<args, categories, usedCatNames, name, products, usedEans, cur,
                 stores, usedStoreNames, usedUrls, sampled, offers, error,
                 uuidClock, seedVars, csvVars, dbVars, cellVars, implVars, auxVars, eanVars>>

\* allPairs[i] = allPairs[j] without the exchange
Swap_Overwrite(s, a, b) == [s EXCEPT ![a + 1] = s[b + 1]]
\* line 172, with 0-based positions a and b
Swap(s, a, b) == [s EXCEPT ![a + 1] = s[b + 1], ![b + 1] = s[a + 1]]
\* j drawn below i: Math.floor(rng() * i)
ShuffleIndex_Below(r, k) == FloorMul(r, k)
\* line 171
ShuffleIndex(r, k) == FloorMul(r, k + 1)

\* lines 170-173: one pass of the shuffle loop
ShuffleStep ==
  /\ pc = "shuffle"
  /\ i > 0
  /\ \E r \in ShuffleRng :
       /\ Draws(<<r>>, <<>>)
       /\ allPairs' = Swap(allPairs, i, ShuffleIndex(r, i))
  /\ i' = i - 1
  /\ UNCHANGED <<pc, args, n_offers, categories, usedCatNames, name, products,
                 usedEans, cur, stores, usedStoreNames, usedUrls, scand, sampled,
                 offers, warnings, error, uuidClock, csvVars, dbVars, cellVars, implVars, auxVars, eanVars>>

\* slice(1, n_offers) in place of slice(0, n_offers)
Sampled_FromSecond(pairs, n) == SubSeq(pairs, 2, Min(n, Len(pairs)))
\* line 174
Sampled(pairs, n) == SubSeq(pairs, 1, Min(n, Len(pairs)))

\* lines 170, 174: the shuffle loop ends, the first n_offers pairs are taken
Sample ==
  /\ pc = "shuffle"
  /\ ~(i > 0)
  /\ sampled' = Sampled(allPairs, n_offers)
  /\ pc' = "offers"
  /\ UNCHANGED <<args, n_offers, categories, usedCatNames, name, products,
                 usedEans, cur, stores, usedStoreNames, usedUrls, scand, allPairs,
                 i, offers, warnings, error, uuidClock, seedVars, csvVars, dbVars, cellVars, implVars, auxVars, eanVars>>

\* line 177, in cents
OfferPrice(basePrice, r) == RoundDiv(basePrice * 3 * (RngDen + r), 5 * RngDen)
\* line 178
\* Math.round in place of Math.floor
OfferAmount_Round(r) == RoundDiv(r * AmountN, RngDen)
OfferAmount(r) == FloorMul(r, AmountN)

\* lines 176-180: one pass of the offer loop
OfferStep ==
  /\ pc = "offers"
  /\ Len(offers) < Len(sampled)
  /\ \E rs \in OfferRng :
       LET pair == sampled[Len(offers) + 1] IN
       /\ Draws(rs, <<>>)
       /\ offers' = Append(offers,
            OfferRecord(pair, OfferPrice(pair[3], rs[1]), OfferAmount(rs[2])))
  /\ UNCHANGED <<pc, args, n_offers, categories, usedCatNames, name, products,
                 usedEans, cur, stores, usedStoreNames, usedUrls, scand, allPairs,
                 i, sampled, warnings, error, uuidClock, csvVars, dbVars, cellVars, implVars, auxVars, eanVars>>

\* line 176: the offer loop ends
OffersDone ==
  /\ pc = "offers"
  /\ ~(Len(offers) < Len(sampled))
  /\ pc' = "return"
  /\ UNCHANGED <<genVars, uuidClock, seedVars, csvVars, dbVars, cellVars, implVars, auxVars, eanVars>>

\* line 183: the four arrays go back to the caller; the other locals die
Return ==
  /\ pc = "return"
  /\ pc' = "returned"
  /\ usedCatNames' = {}
  /\ usedEans' = {}
  /\ usedStoreNames' = {}
  /\ usedUrls' = {}
  /\ allPairs' = <<>>
  /\ sampled' = <<>>
  /\ i' = 0
  /\ UNCHANGED <<args, n_offers, categories, name, products, cur, stores, scand,
                 offers, warnings, error, uuidClock, seedVars, csvVars, dbVars, cellVars, implVars, auxVars, eanVars>>

-----------------------------------------------------------------------------
(* csv_writer.js *)

\* String(value) of a number with at most two decimals, held in cents
MoneyStr(c) ==
  LET whole == c \div 100
      frac  == c % 100
  IN IF frac = 0 THEN Digits(whole)
     ELSE IF frac % 10 = 0 THEN Digits(whole) \o <<".">> \o Digits(frac \div 10)
     ELSE Digits(whole) \o <<".">> \o Digits(frac \div 10) \o Digits(frac % 10)

\* row[h] turned into text by lines 29-30: a missing property is undefined
\* and gives '', a number goes through String()
CellText(row, h) ==
  IF h \notin DOMAIN row THEN <<>>
  ELSE IF h \in {"retailPrice", "price"} THEN MoneyStr(row[h])
  ELSE IF h = "amount" THEN Digits(row[h])
  ELSE row[h]

\* line 31
NeedsQuotes(s) == \E k \in DOMAIN s : s[k] \in {"\"", ",", "\r", "\n"}

\* the quotes left single
DoubleQuotes_Keep(s) == s
\* s.replace(/"/g, '""')
RECURSIVE DoubleQuotes(_)
DoubleQuotes(s) ==
  IF s = <<>> THEN <<>>
  ELSE (IF s[1] = "\"" THEN <<"\"", "\"">> ELSE <<s[1]>>) \o DoubleQuotes(Tail(s))

\* lines 28-35, on the text of the cell
escapeCSV(s) ==
  IF NeedsQuotes(s) THEN <<"\"">> \o DoubleQuotes(s) \o <<"\"">> ELSE s

\* the code unit 0xFEFF (byte order mark), as one character
Bom == "FEFF"
\* line 157
StripBom(t) == IF t # <<>> /\ t[1] = Bom THEN Tail(t) ELSE t

\* a line feed after the carriage return left for the next pass
AfterCr_Single(t, k) == k + 1
\* lines 194-198: the position after a carriage return at k, CRLF taken whole
AfterCr(t, k) == IF k + 1 <= Len(t) /\ t[k + 1] = "\n" THEN k + 2 ELSE k + 1

\* lines 164-217: the loop over text from position k (1-based) on, with the
\* locals cur, row, rows and inQuotes; lines 219-227 after the last position
RECURSIVE parseFrom(_, _, _, _, _, _)
parseFrom(t, k, c, row, rows, inQuotes) ==
  IF k > Len(t)
  THEN IF c # <<>> \/ Len(row) > 0 THEN Append(rows, Append(row, c)) ELSE rows
  ELSE LET ch == t[k]
           nextIs(x) == k + 1 <= Len(t) /\ t[k + 1] = x
       IN IF inQuotes
          THEN IF ch = "\""
               THEN IF nextIs("\"")
                    THEN parseFrom(t, k + 2, Append(c, "\""), row, rows, TRUE)
                    ELSE parseFrom(t, k + 1, c, row, rows, FALSE)
               ELSE parseFrom(t, k + 1, Append(c, ch), row, rows, TRUE)
          ELSE IF ch = "\""
               THEN parseFrom(t, k + 1, c, row, rows, TRUE)
          ELSE IF ch = ","
               THEN parseFrom(t, k + 1, <<>>, Append(row, c), rows, FALSE)
          ELSE IF ch = "\r"
               THEN parseFrom(t, AfterCr(t, k), <<>>, <<>>,
                              Append(rows, Append(row, c)), FALSE)
          ELSE IF ch = "\n"
               THEN parseFrom(t, k + 1, <<>>, <<>>, Append(rows, Append(row, c)), FALSE)
          ELSE parseFrom(t, k + 1, Append(c, ch), row, rows, FALSE)

\* lines 153-228
parseCSV(t) ==
  IF t = <<>> THEN <<>> ELSE parseFrom(StripBom(t), 1, <<>>, <<>>, <<>>, FALSE)

\* a header as text
Chars(h) ==
  CASE h = "id"          -> <<"i","d">>
    [] h = "name"        -> <<"n","a","m","e">>
    [] h = "url"         -> <<"u","r","l">>
    [] h = "ean"         -> <<"e","a","n">>
    [] h = "categoryId"  -> <<"c","a","t","e","g","o","r","y","I","d">>
    [] h = "retailPrice" -> <<"r","e","t","a","i","l","P","r","i","c","e">>
    [] h = "storeId"     -> <<"s","t","o","r","e","I","d">>
    [] h = "productId"   -> <<"p","r","o","d","u","c","t","I","d">>
    [] h = "price"       -> <<"p","r","i","c","e">>
    [] h = "amount"      -> <<"a","m","o","u","n","t">>

\* lines 43-62
arrayToCSV(headers, rows) ==
  LET headerLine == Join([k \in DOMAIN headers |-> Chars(headers[k])], <<",">>)
      lines == [r \in DOMAIN rows |->
                  Join([k \in DOMAIN headers |-> escapeCSV(CellText(rows[r], headers[k]))],
                       <<",">>)]
  IN Join(<<headerLine>> \o lines, <<"\n">>) \o <<"\n">>

\* lines 103-124
CategoryHeaders == <<"id", "name">>
ProductHeaders  == <<"id", "categoryId", "ean", "name", "retailPrice">>
StoreHeaders    == <<"id", "name", "url">>
OfferHeaders    == <<"storeId", "productId", "price", "amount">>

FileNames == {"categories.csv", "products.csv", "stores.csv", "offers.csv"}
EmptyData == [categories |-> <<>>, products |-> <<>>, stores |-> <<>>, offers |-> <<>>]

\* seed.js lines 44-48
ExecutionModes == {"CSV_DUMP_ONLY", "CSV_DUMP_AND_LOAD", "LOAD_FROM_CSV_ONLY"}
\* what SELECTED_MODE may hold: a mode, or any other text of the environment
SelectedModes == ExecutionModes \cup {"OTHER"}
\* lines 512-517
IsSelectedModeValid == mode \in ExecutionModes
\* lines 487, 539: the modes that generate and write
DumpModes == {"CSV_DUMP_AND_LOAD", "CSV_DUMP_ONLY"}
\* every valid mode taken as one that loads
LoadModes_All == ExecutionModes
\* line 543: the modes that load
LoadModes == {"CSV_DUMP_AND_LOAD", "LOAD_FROM_CSV_ONLY"}

\* lines 520-533, 486-504: main up to the call GetData makes
MainStart ==
  /\ pc = "main"
  /\ pc' = IF ~IsSelectedModeValid THEN "exit"
           ELSE IF mode \in DumpModes THEN "generateData"
           ELSE IF mode = "LOAD_FROM_CSV_ONLY" THEN "getData_load"
           ELSE "returned"
  /\ UNCHANGED <<genVars, uuidClock, seedVars, csvVars, dbVars, cellVars, implVars, auxVars, eanVars>>

\* seed.js line 534
DataMissing(d) == Len(d.categories) = 0 \/ Len(d.products) = 0 \/ Len(d.stores) = 0

\* seed.js lines 533-537: main looks at what GetData returned
DataCheck ==
  /\ pc = "returned"
  /\ pc' = IF DataMissing(Dataset) THEN "exit" ELSE "main_write"
  /\ UNCHANGED <<genVars, uuidClock, seedVars, csvVars, dbVars, cellVars, implVars, auxVars, eanVars>>

\* seed.js lines 539-541, csv_writer.js lines 88-139
WriteAllToCSVs ==
  /\ pc = "main_write"
  /\ mode \in DumpModes
  /\ files' = [f \in FileNames |->
       CASE f = "categories.csv" -> arrayToCSV(CategoryHeaders, categories)
         [] f = "products.csv"   -> arrayToCSV(ProductHeaders, products)
         [] f = "stores.csv"     -> arrayToCSV(StoreHeaders, stores)
         [] f = "offers.csv"     -> arrayToCSV(OfferHeaders, offers)]
  /\ pc' = "written"
  /\ outputDir' = TRUE
  /\ UNCHANGED <<genVars, uuidClock, seedVars, loaded, dbVars, cellVars, implVars, auxVars, eanVars>>

\* seed.js line 543: not a mode that loads
MainSkipLoad ==
  /\ pc = "written"
  /\ mode \notin LoadModes
  /\ pc' = "exit"
  /\ UNCHANGED <<genVars, uuidClock, seedVars, csvVars, dbVars, cellVars, implVars, auxVars, eanVars>>

\* csv_writer.js lines 18-19: the module imports { resolve, join } from
\* 'path' and never binds the name path
PathIsBound == FALSE

\* seed.js line 501, csv_writer.js lines 291-353: line 292 evaluates
\* path.resolve(outputDir); with path unbound that is a ReferenceError and
\* nothing after it runs
ReadAllFromCSVs ==
  /\ pc \in {"written", "getData_load"}
  /\ ~PathIsBound
  /\ loaded' = [status |-> "ReferenceError", data |-> EmptyData]
  /\ pc' = IF pc = "written" THEN "read" ELSE "getData_threw"
  /\ UNCHANGED <<genVars, uuidClock, seedVars, outputDir, files, dbVars, cellVars, implVars, auxVars, eanVars>>

-----------------------------------------------------------------------------
(* escapeCSV and parseCSV on a lone cell: the cell is written as a line of  *)
(* its own (csv_writer.js line 60 ends every line with a line feed) and the *)
(* line is parsed.                                                          *)
CellChars == {"a", ",", "\"", "\r", "\n", Bom}
RECURSIVE Strings(_)
Strings(n) ==
  IF n = 0 THEN {<<>>}
  ELSE Strings(n - 1) \cup { Append(s, c) : s \in Strings(n - 1), c \in CellChars }

\* lines 28-35, 60
EscapeCell ==
  /\ pc = "escapeCSV"
  /\ text' = escapeCSV(cell) \o <<"\n">>
  /\ pc' = "parseCSV"
  /\ UNCHANGED <<genVars, uuidClock, seedVars, csvVars, dbVars, cell, parsed, sheet, implVars, auxVars,
                 eanVars>>

\* lines 153-228
ParseCell ==
  /\ pc = "parseCSV"
  /\ parsed' = parseCSV(text)
  /\ pc' = "parsed"
  /\ UNCHANGED <<genVars, uuidClock, seedVars, csvVars, dbVars, cell, text, sheet, implVars, auxVars,
                 eanVars>>

-----------------------------------------------------------------------------
(* parseCSV on a text of several rows: each cell escaped, the cells of a   *)
(* row joined by commas, the rows ended by LF or by CRLF, the last one     *)
(* with or without its terminator.                                          *)
CellSamples == { <<>>, <<"a">>, <<"\n">>, <<"\r">>, <<"\"", ",">> }
RowSamples == { <<a>> : a \in CellSamples } \cup { <<a, b>> : a, b \in CellSamples }
RECURSIVE RowSeqs(_)
RowSeqs(n) ==
  IF n = 0 THEN {<<>>}
  ELSE RowSeqs(n - 1) \cup { Append(rs, r) : rs \in RowSeqs(n - 1), r \in RowSamples }
Sheets == [rows : RowSeqs(MaxRows), eol : {<<"\n">>, <<"\r", "\n">>}, final : BOOLEAN]

RECURSIVE JoinWith(_, _)
JoinWith(parts, sep) ==
  IF parts = <<>> THEN <<>>
  ELSE IF Len(parts) = 1 THEN parts[1]
  ELSE parts[1] \o sep \o JoinWith(Tail(parts), sep)
Line(row) == JoinWith([k \in DOMAIN row |-> escapeCSV(row[k])], <<",">>)
Render(sh) ==
  JoinWith([k \in DOMAIN sh.rows |-> Line(sh.rows[k])], sh.eol)
    \o (IF sh.final /\ sh.rows # <<>> THEN sh.eol ELSE <<>>)

RenderSheet ==
  /\ pc = "render"
  /\ text' = Render(sheet)
  /\ pc' = "parseCSV"
  /\ UNCHANGED <<genVars, uuidClock, seedVars, csvVars, dbVars, cell, parsed,
                 sheet, implVars, auxVars, eanVars>>

-----------------------------------------------------------------------------
(* The storage loaders of seed.js.  db maps each table or collection to     *)
(* the rows or documents it holds, in insertion order.                      *)
Tables == {"pc_product_categories", "p_products", "s_stores", "o_offers"}
EmbeddedName(useIndex) ==
  IF useIndex THEN "s_stores_embedded_index" ELSE "s_stores_embedded"
RefName(base, useIndex) ==
  IF useIndex THEN base \o "_referencing_index" ELSE base \o "_referencing"
RefBases == {"pc_product_categories", "p_products", "s_stores", "o_offers"}
Collections ==
  {EmbeddedName(u) : u \in BOOLEAN} \cup {RefName(b, u) : b \in RefBases, u \in BOOLEAN}
Undefined == <<"undefined">>
Unknown == <<"U","n","k","n","o","w","n">>

\* lines 250-253: the parameters of one row are row[col] for each column
RowParams(row, cols) == [c \in cols |-> row[c]]
\* lines 239-262: insertMany; "on conflict do nothing" skips a row whose
\* conflict columns equal those of a row already in the table
RECURSIVE InsertRows(_, _, _, _)
InsertRows(table, cols, rows, conflictCols) ==
  IF rows = <<>> THEN table
  ELSE LET r == RowParams(Head(rows), cols)
           clash == \E k \in DOMAIN table :
                      \A c \in conflictCols : table[k][c] = r[c]
       IN InsertRows(IF clash THEN table ELSE Append(table, r),
                     cols, Tail(rows), conflictCols)

\* lines 186-283.  A failed connect returns at once; a failed query rolls
\* the transaction back; either way the tables are as before.
LoadPostgres ==
  /\ pc = "written"
  /\ \/ UNCHANGED db
     \/ db' = [db EXCEPT
          !["pc_product_categories"] =
             InsertRows(<<>>, {"id", "name"}, categories, {"id"}),
          !["p_products"] =
             InsertRows(<<>>, {"id", "category_id", "ean", "name", "retailPrice"},
                        products, {"id"}),
          !["s_stores"] = InsertRows(<<>>, {"id", "name", "url"}, stores, {"id"}),
          !["o_offers"] =
             InsertRows(<<>>, {"store_id", "product_id", "price", "amount"},
                        offers, {"store_id", "product_id"})]
  /\ pc' = "loaded_pg"
  /\ UNCHANGED <<genVars, uuidClock, seedVars, csvVars, cellVars, implVars, auxVars, eanVars>>

-----------------------------------------------------------------------------
(* loadPostgres query by query.  pg holds the place in the function, the   *)
(* queries issued so far, how often client.end was called, and the batch    *)
(* insertMany is sending.  A row is its index in the array handed in.       *)
PgTables == <<"pc_product_categories", "p_products", "s_stores", "o_offers">>
\* lines 264-267: the columns of each insertMany call
PgCols ==
  << <<"id", "name">>,
     <<"id", "category_id", "ean", "name", "retailPrice">>,
     <<"id", "name", "url">>,
     <<"store_id", "product_id", "price", "amount">> >>
NoBatch == [chunk |-> <<>>, values |-> <<>>, params |-> <<>>]
NoPg ==
  [step |-> "none", k |-> 0, start |-> 0, rows |-> <<0, 0, 0, 0>>, log |-> <<>>,
   connected |-> FALSE, failed |-> "none", ended |-> 0, batch |-> NoBatch,
   sent |-> <<>>]
Query(sql, table, n) == [sql |-> sql, table |-> table, rows |-> n]

\* line 239: the default of the parameter maxParams, which no call overrides
MaxParams == 60000
\* line 242: the cap on the rows of one batch
BatchCap == 5000
\* line 242: Math.max(1, Math.min(Math.floor(maxParams / perRow), 5000))
RowsPerBatch(perRow) ==
  IF (IF MaxParams \div perRow < BatchCap THEN MaxParams \div perRow ELSE BatchCap) < 1
  THEN 1
  ELSE IF MaxParams \div perRow < BatchCap THEN MaxParams \div perRow ELSE BatchCap
\* line 244: rows.slice(start, start + rowsPerBatch), rows being 1..n
Chunk(n, start, perRow) ==
  [j \in 1..(IF start + RowsPerBatch(perRow) < n THEN RowsPerBatch(perRow) ELSE n - start)
     |-> start + j]
\* the counter started again with every row
PlaceholderAt_PerRow(r, c, perRow) == c
\* lines 247, 251: i is 1 before the first row and goes up by one with every
\* placeholder pushed; at column c of the r-th row of the chunk it is
PlaceholderAt(r, c, perRow) == (r - 1) * perRow + c
\* lines 245-255: values holds the placeholders of each row, params the
\* row[col] of every row and column in the same order
Batch(chunk, cols) ==
  [chunk  |-> chunk,
   values |-> [r \in DOMAIN chunk |->
                 [c \in DOMAIN cols |-> PlaceholderAt(r, c, Len(cols))]],
   params |-> [j \in 1..(Len(chunk) * Len(cols)) |->
                 <<chunk[(j - 1) \div Len(cols) + 1], cols[((j - 1) % Len(cols)) + 1]>>]]

\* the catch block left out
Thrown_NoRollback == "end"
\* lines 277-279: a query that throws inside the try block leads to the catch block
Thrown == "rollback"

\* lines 196-202: connect; a failure returns before any query and before
\* the try block whose finally closes the client
PgConnect ==
  /\ pg.step = "connect"
  /\ \E ok \in BOOLEAN :
       pg' = [pg EXCEPT !.connected = ok, !.step = IF ok THEN "begin" ELSE "done"]
  /\ UNCHANGED <<seedAll, conn, req, ui>>

\* lines 230-235, 269-275: BEGIN, the four create statements, TRUNCATE, the
\* four counts and COMMIT, each a query that succeeds or throws
PgQuery ==
  /\ pg.step \in {"begin", "create", "truncate", "count", "commit"}
  /\ \E ok \in BOOLEAN :
       LET sql == CASE pg.step = "begin" -> "BEGIN"
                    [] pg.step = "create" -> "CREATE"
                    [] pg.step = "truncate" -> "TRUNCATE"
                    [] pg.step = "count" -> "COUNT"
                    [] pg.step = "commit" -> "COMMIT"
           table == IF pg.step \in {"create", "count"} THEN PgTables[pg.k] ELSE ""
           last == pg.k = Len(PgTables)
           after ==
             CASE pg.step = "begin" -> [step |-> "create", k |-> 1]
               [] pg.step = "create" ->
                    IF last THEN [step |-> "truncate", k |-> 0]
                    ELSE [step |-> "create", k |-> pg.k + 1]
               [] pg.step = "truncate" -> [step |-> "insert", k |-> 1]
               [] pg.step = "count" ->
                    IF last THEN [step |-> "commit", k |-> 0]
                    ELSE [step |-> "count", k |-> pg.k + 1]
               [] pg.step = "commit" -> [step |-> "end", k |-> 0]
       IN pg' = [pg EXCEPT
                   !.log = Append(@, Query(sql, table, 0)),
                   !.step = IF ok THEN after.step ELSE Thrown,
                   !.k = IF ok THEN after.k ELSE 0,
                   !.failed = IF ok THEN @ ELSE sql]
  /\ UNCHANGED <<seedAll, conn, req, ui>>

\* lines 239-262: one pass of the loop of insertMany for the k-th table: the
\* next batch is built and sent, and the query succeeds or throws
PgInsertBatch ==
  /\ pg.step = "insert"
  /\ pg.start < pg.rows[pg.k]
  /\ \E ok \in BOOLEAN :
       LET cols == PgCols[pg.k]
           chunk == Chunk(pg.rows[pg.k], pg.start, Len(cols))
       IN pg' = [pg EXCEPT
                   !.batch = Batch(chunk, cols),
                   !.sent = @ \o chunk,
                   !.log = Append(@, Query("INSERT", PgTables[pg.k], Len(chunk))),
                   !.start = @ + RowsPerBatch(Len(cols)),
                   !.step = IF ok THEN @ ELSE Thrown,
                   !.failed = IF ok THEN @ ELSE "INSERT"]
  /\ UNCHANGED <<seedAll, conn, req, ui>>

\* lines 240, 243, 264-267: insertMany returns when the rows are empty or
\* all sent, and the next call or the counts follow
PgInsertDone ==
  /\ pg.step = "insert"
  /\ pg.start >= pg.rows[pg.k]
  /\ pg' = [pg EXCEPT
              !.step = IF pg.k = Len(PgTables) THEN "count" ELSE "insert",
              !.k = IF pg.k = Len(PgTables) THEN 1 ELSE @ + 1,
              !.start = 0, !.sent = <<>>, !.batch = NoBatch]
  /\ UNCHANGED <<seedAll, conn, req, ui>>

\* line 278: ROLLBACK, whose own failure is swallowed
PgRollback ==
  /\ pg.step = "rollback"
  /\ pg' = [pg EXCEPT !.log = Append(@, Query("ROLLBACK", "", 0)), !.step = "end"]
  /\ UNCHANGED <<seedAll, conn, req, ui>>

\* line 281: the finally block closes the client; a failure is swallowed
PgEnd ==
  /\ pg.step = "end"
  /\ pg' = [pg EXCEPT !.ended = @ + 1, !.step = "done"]
  /\ UNCHANGED <<seedAll, conn, req, ui>>

-----------------------------------------------------------------------------
(* mongodb_client.js of the API.  ready is unset, or the promise of the    *)
(* one async function that awaits client.connect() and then the ping; the  *)
(* callers are requests being served at the same time.                     *)
Callers == 1..MaxCallers
ClientFns == {"getClient", "getEmbeddedDb", "getReferencingDb"}
NoCaller == [fn |-> "none", state |-> "idle", attempt |-> 0, error |-> "none", calls |-> 0]
NoConn ==
  [ready |-> "unset", stage |-> "none", connects |-> 0, error |-> "none",
   callers |-> [c \in Callers |-> NoCaller]]

\* a failed attempt taken as none
NeedsConnect_Unsettled == conn.ready \in {"unset", "failed"}
\* line 32: if (!ready)
NeedsConnect == conn.ready = "unset"

\* lines 31-41, 43-50: a call of getClient, getEmbeddedDb or getReferencingDb
\* runs ensureConnected up to its await: with ready unset the async function
\* is started, which calls client.connect() at once, and its promise is kept
\* in ready; the caller then waits for the promise in ready
Call(c, fn) ==
  /\ conn.callers[c].state = "idle"
  /\ conn.callers[c].calls < MaxCalls
  /\ LET started == NeedsConnect
         attempt == IF started THEN conn.connects + 1 ELSE conn.connects
     IN conn' = [conn EXCEPT
          !.ready = IF started THEN "pending" ELSE @,
          !.stage = IF started THEN "connect" ELSE @,
          !.error = IF started THEN "none" ELSE @,
          !.connects = attempt,
          !.callers[c] = [fn |-> fn, state |-> "waiting", attempt |-> attempt,
                          error |-> "none", calls |-> @.calls + 1]]
  /\ UNCHANGED <<seedAll, pg, req, ui>>

\* line 34: client.connect() settles
ConnectSettles ==
  /\ conn.stage = "connect"
  /\ \E ok \in BOOLEAN :
       conn' = [conn EXCEPT
          !.stage = IF ok THEN "ping" ELSE "none",
          !.ready = IF ok THEN @ ELSE "failed",
          !.error = IF ok THEN @ ELSE "connect"]
  /\ UNCHANGED <<seedAll, pg, req, ui>>

\* line 36: the ping settles, and with it the promise in ready
PingSettles ==
  /\ conn.stage = "ping"
  /\ \E ok \in BOOLEAN :
       conn' = [conn EXCEPT
          !.stage = "none",
          !.ready = IF ok THEN "ok" ELSE "failed",
          !.error = IF ok THEN @ ELSE "ping"]
  /\ UNCHANGED <<seedAll, pg, req, ui>>

\* lines 44-45, 48-49: a caller resumes after its await: it returns the
\* client or the database, or throws what the promise was rejected with
Resume(c) ==
  /\ conn.callers[c].state = "waiting"
  /\ conn.ready \in {"ok", "failed"}
  /\ conn' = [conn EXCEPT
        !.callers[c].state = IF conn.ready = "ok" THEN "returned" ELSE "threw",
        !.callers[c].error = conn.error]
  /\ UNCHANGED <<seedAll, pg, req, ui>>

\* the request is over and the next one of this caller may come
Over(c) ==
  /\ conn.callers[c].state \in {"returned", "threw"}
  /\ conn' = [conn EXCEPT !.callers[c].state = "idle"]
  /\ UNCHANGED <<seedAll, pg, req, ui>>

-----------------------------------------------------------------------------
(* A paged GET request: the route handler of main.js reads page and limit  *)
(* from the query, calls the operation of the wrapper object mounted under *)
(* the prefix, and the service function skips offset items and returns at  *)
(* most limit.  The items of the collection are 0..MaxItems-1.             *)
Wrappers ==
  {"mongo_embedded", "mongo_embedded_index", "mongo_embedded_schema",
   "mongo_referencing", "mongo_referencing_index"}
PagedOps ==
  {"getAllProducts", "getAllStores", "getAllStoreNames", "getAllStoreNamesDesc",
   "getFilteredStores", "getFilteredStoreNames", "getAllStoresWithOfferCount",
   "getAllCategories", "getAllOffers", "getOffersFromStore"}
\* a query value: no key (parseInt gives NaN), or the number given
Absent == <<>>
QueryValues == {Absent} \cup { <<n>> : n \in 0..MaxPage }
NoReq ==
  [step |-> "none", wrapper |-> "none", op |-> "none", query |-> [page |-> Absent, limit |-> Absent],
   page |-> 0, limit |-> 0, offset |-> 0, passed |-> [limit |-> 0, offset |-> 0],
   result |-> <<>>]

\* main.js lines 20-21: parseInt(q, 10) || d, NaN and 0 both giving d
OrDefault(q, d) == IF q = Absent THEN d ELSE IF q[1] = 0 THEN d ELSE q[1]
\* main.js lines 19-24: getPageLimit
GetPageLimit ==
  /\ req.step = "request"
  /\ LET page == OrDefault(req.query.page, 1)
         limit == OrDefault(req.query.limit, 10)
     IN req' = [req EXCEPT !.page = page, !.limit = limit,
                           !.offset = (page - 1) * limit, !.step = "route"]
  /\ UNCHANGED <<seedAll, pg, conn, ui>>

\* mongo_embedded_functions.js lines 26-45 and the like: what the wrapper
\* hands to the service function.  The arguments of getOffersFromStore are
\* written limit = 10, offset = 0: assignments, whose values are 10 and 0
Passed(op, limit, offset) ==
  IF op = "getOffersFromStore"
  THEN [limit |-> 10, offset |-> 0]
  ELSE [limit |-> limit, offset |-> offset]
\* main.js lines 28-87: the handler calls the operation of the wrapper
WrapperCall ==
  /\ req.step = "route"
  /\ req' = [req EXCEPT !.passed = Passed(req.op, req.limit, req.offset),
                        !.step = "service"]
  /\ UNCHANGED <<seedAll, pg, conn, ui>>

\* mongodb_embedded_service.js line 8: [{ $skip: offset }, { $limit: limit }]
paginate(items, offset, limit) ==
  [j \in 1..(IF Len(items) - offset < 0 THEN 0
             ELSE IF Len(items) - offset < limit THEN Len(items) - offset
             ELSE limit) |-> items[offset + j]]
\* the service function returns the page of the items
ServiceReturn ==
  /\ req.step = "service"
  /\ req' = [req EXCEPT
        !.result = paginate([j \in 1..MaxItems |-> j - 1], req.passed.offset,
                            req.passed.limit),
        !.step = "responded"]
  /\ UNCHANGED <<seedAll, pg, conn, ui>>

-----------------------------------------------------------------------------
(* The admin page (frontend/app/page.tsx).  ui holds the state of Page and *)
(* of useStores, the list requests started by the effect of useStores,     *)
(* each with the cancelled flag of its closure, the store mutation under   *)
(* way, and backend, which counts the changes made to the stores.  What    *)
(* setRows stored is tagged with the request whose callback stored it and  *)
(* with the count of changes the answer reflects.  The page runs on React  *)
(* 18 ('use client'), where a state change made in a click handler is      *)
(* rendered and its effects are run before the handler's task ends, so     *)
(* that no callback of a fetch runs in between.                            *)
Prefixes == {"/postgres", "/mongo-embedded", "/mongo-referencing"}
\* line 269 offers 10, 20, 50 and 100
PageSizes == {10, 20}
NoRows == [req |-> 0, version |-> 0, items |-> "empty"]
NoUi ==
  [prefix |-> "/postgres", page |-> 1, limit |-> 10,
   loading |-> TRUE, error |-> "none", rows |-> NoRows, total |-> 0,
   reqs |-> <<>>, busy |-> FALSE, op |-> "none", mutations |-> 0, backend |-> 0]
Params(u) == <<u.prefix, u.page, u.limit>>

\* lines 74-100: the effect of useStores and its cleanup.  A render whose
\* prefix, page and limit equal those of the render before runs neither; a
\* state set to the value it has causes no render at all.  Otherwise the
\* cleanup of the last effect sets its cancelled flag and aborts its fetch,
\* and the new effect sets loading, clears error and starts a fetch.
WithParams(u, prefix, page, limit) ==
  IF <<prefix, page, limit>> = Params(u) THEN u
  ELSE [u EXCEPT
          !.prefix = prefix, !.page = page, !.limit = limit,
          !.loading = TRUE, !.error = "none",
          !.reqs = Append([r \in DOMAIN @ |-> [@[r] EXCEPT !.cancelled = TRUE]],
                          [params |-> <<prefix, page, limit>>, cancelled |-> FALSE,
                           state |-> "pending"])]

\* lines 250-254: another source chosen; lines 264: another page size;
\* lines 279, 281: Prev and Next
ChangeParams ==
  /\ ui.reqs # <<>>
  /\ Len(ui.reqs) < MaxRequests
  /\ \E prefix \in Prefixes, page \in 1..MaxPage, limit \in PageSizes :
       /\ \/ page = 1 /\ limit = ui.limit
          \/ page = 1 /\ prefix = ui.prefix
          \/ prefix = ui.prefix /\ limit = ui.limit /\ page \in {ui.page - 1, ui.page + 1}
       /\ <<prefix, page, limit>> # Params(ui)
       /\ ui' = WithParams(ui, prefix, page, limit)
  /\ UNCHANGED <<seedAll, pg, conn, req>>

\* the callbacks run although the effect was cleaned up
Stale_Never(r) == FALSE
\* lines 84, 90: if (cancelled) return
Stale(r) == ui.reqs[r].cancelled

\* lines 80-94: the fetch of request r settles: answered with the stores as
\* they are now, or failed (not ok, network error, aborted)
Respond(r) ==
  /\ r \in DOMAIN ui.reqs
  /\ ui.reqs[r].state = "pending"
  /\ \E ok \in BOOLEAN :
       ui' = IF Stale(r) THEN [ui EXCEPT !.reqs[r].state = "done"]
             ELSE IF ok
             THEN [ui EXCEPT !.reqs[r].state = "done",
                             !.rows = [req |-> r, version |-> ui.backend, items |-> "stores"],
                             !.total = r,
                             !.loading = FALSE]
             ELSE [ui EXCEPT !.reqs[r].state = "done",
                             !.error = "fetch",
                             !.rows = [req |-> r, version |-> ui.backend, items |-> "empty"],
                             !.loading = FALSE]
  /\ UNCHANGED <<seedAll, pg, conn, req>>

\* lines 165-178, 198-212, 225-231: a create or edit form is submitted, or
\* the deletion of a displayed store confirmed: busy is set and the POST,
\* PUT or DELETE sent
Submit(kind) ==
  /\ ui.reqs # <<>>
  /\ ui.op = "none"
  /\ ui.mutations < MaxMutations
  /\ kind \in {"edit", "delete"} =>
       ~ui.loading /\ ui.error = "none" /\ ui.rows.items = "stores"
  /\ ui' = [ui EXCEPT !.busy = TRUE, !.op = kind, !.mutations = @ + 1]
  /\ UNCHANGED <<seedAll, pg, conn, req>>

\* lines 160-163: refetch calls setPage((p) => p), which sets page to the
\* value it has
Refetch(u) == WithParams(u, u.prefix, u.page, u.limit)

\* lines 179-187, 213-222, 232-238: the mutation is answered.  When it
\* succeeded the backend's stores have changed and refetch is called; busy is
\* reset either way
MutationResponds ==
  /\ ui.op # "none"
  /\ \E ok \in BOOLEAN :
       ui' = IF ok
             THEN [Refetch([ui EXCEPT !.backend = @ + 1]) EXCEPT !.busy = FALSE, !.op = "none"]
             ELSE [ui EXCEPT !.busy = FALSE, !.op = "none"]
  /\ UNCHANGED <<seedAll, pg, conn, req>>

\* nothing of the loaders' queries and of the API has happened
AuxIdle == pg = NoPg /\ conn = NoConn /\ req = NoReq /\ ui = NoUi

\* seed.js line 501: GetData in LOAD_FROM_CSV_ONLY
GetDataLoad == pc = "getData_load" /\ ReadAllFromCSVs

\* lines 322, 342: the name of the product's category, or 'Unknown'
CatById(cats, id) ==
  IF \E k \in DOMAIN cats : cats[k].id = id
  THEN cats[CHOOSE k \in DOMAIN cats :
              cats[k].id = id /\ \A m \in DOMAIN cats : cats[m].id = id => m <= k].name
  ELSE Unknown
\* every store handed every offer
OffersByStore_All(os, id) == os
\* lines 325-330, 334: the offers of one store, in the order of the offers array
OffersByStore(os, id) == SelectSeq(os, LAMBDA o : o.store_id = id)
\* lines 339-350: one embedded offer; the retail price goes into product_id
EmbeddedOffer(o, p, cats) ==
  [product |-> [id |-> p.id, category |-> CatById(cats, p.category_id),
                ean |-> p.ean, name |-> p.name, product_id |-> p.retailPrice],
   price |-> o.price, amount |-> o.amount]
\* lines 323, 332-352: one document per store; an offer without product is left out
RECURSIVE EmbeddedOffers(_, _, _)
EmbeddedOffers(os, ps, cats) ==
  IF os = <<>> THEN <<>>
  ELSE LET o == Head(os)
           hit == { k \in DOMAIN ps : ps[k].id = o.product_id }
       IN (IF hit = {} THEN <<>>
           ELSE <<EmbeddedOffer(o, ps[CHOOSE k \in hit : \A m \in hit : m <= k], cats)>>)
          \o EmbeddedOffers(Tail(os), ps, cats)
EmbeddedDocs(cats, ps, ss, os) ==
  [k \in DOMAIN ss |->
     [id |-> ss[k].id, name |-> ss[k].name, url |-> ss[k].url,
      offers |-> EmbeddedOffers(OffersByStore(os, ss[k].id), ps, cats)]]

\* lines 286-382.  A failed connect returns at once (lines 292-295); otherwise the
\* collection is dropped and the documents, built as new objects, inserted.
LoadMongoEmbedded(useIndex) ==
  /\ pc \in (IF useIndex THEN {"loaded_embedded"} ELSE {"written", "loaded_pg"})
  /\ mode \in LoadModes
  /\ \/ UNCHANGED db
     \/ db' = [db EXCEPT ![EmbeddedName(useIndex)] =
                 EmbeddedDocs(categories, products, stores, offers)]
  /\ pc' = IF useIndex THEN "loaded_embedded_index" ELSE "loaded_embedded"
  /\ UNCHANGED <<genVars, uuidClock, seedVars, csvVars, cellVars, implVars, auxVars, eanVars>>

\* lines 436-448: the documents handed to insertMany are new objects
CategoryDocs(cats) == [k \in DOMAIN cats |-> [_id |-> cats[k].id, name |-> cats[k].name]]
\* line 443: name is read from p.product_id, a property no product has
ProductDocs(ps) ==
  [k \in DOMAIN ps |->
     [_id |-> ps[k].id, category_id |-> ps[k].category_id, ean |-> ps[k].ean,
      name |-> Undefined, retailPrice |-> ps[k].retailPrice]]
StoreDocs(ss) ==
  [k \in DOMAIN ss |-> [_id |-> ss[k].id, name |-> ss[k].name, url |-> ss[k].url]]
\* lines 451-464: the offers whose store and product are in the collections
OfferDocs(os, storeDocs, prodDocs) ==
  LET kept == SelectSeq(os, LAMBDA o :
                /\ \E k \in DOMAIN storeDocs : storeDocs[k]._id = o.store_id
                /\ \E k \in DOMAIN prodDocs : prodDocs[k]._id = o.product_id)
  IN [k \in DOMAIN kept |->
        [store_id |-> kept[k].store_id, product_id |-> kept[k].product_id,
         price |-> kept[k].price, amount |-> kept[k].amount]]

\* the driver gives a document it inserts an _id; handed the array itself,
\* it writes into the caller's objects
WithId(row) == [f \in DOMAIN row \cup {"_id"} |-> IF f = "_id" THEN row.id ELSE row[f]]
LoadMongoReferencing_InPlace(useIndex) ==
  /\ pc = (IF useIndex THEN "loaded_referencing" ELSE "loaded_embedded_index")
  /\ db' = [db EXCEPT
       ![RefName("s_stores", useIndex)] = [k \in DOMAIN stores |-> WithId(stores[k])]]
  /\ stores' = [k \in DOMAIN stores |-> WithId(stores[k])]
  /\ pc' = IF useIndex THEN "loaded" ELSE "loaded_referencing"
  /\ UNCHANGED <<args, n_offers, categories, usedCatNames, name, products,
                 usedEans, cur, usedStoreNames, usedUrls, scand, allPairs, i,
                 sampled, offers, warnings, error, uuidClock, seedVars, csvVars,
                 cellVars, implVars, auxVars, eanVars>>
\* lines 385-484.  A failed connect returns at once (lines 391-394); otherwise the
\* four collections are dropped and filled.
LoadMongoReferencing(useIndex) ==
  /\ pc = (IF useIndex THEN "loaded_referencing" ELSE "loaded_embedded_index")
  /\ \/ UNCHANGED db
     \/ db' = [db EXCEPT
          ![RefName("pc_product_categories", useIndex)] = CategoryDocs(categories),
          ![RefName("p_products", useIndex)] = ProductDocs(products),
          ![RefName("s_stores", useIndex)] = StoreDocs(stores),
          ![RefName("o_offers", useIndex)] =
             OfferDocs(offers, StoreDocs(stores), ProductDocs(products))]
  /\ pc' = IF useIndex THEN "loaded" ELSE "loaded_referencing"
  /\ UNCHANGED <<genVars, uuidClock, seedVars, csvVars, cellVars, implVars, auxVars, eanVars>>

-----------------------------------------------------------------------------
(* A second process started with the same SEED (seed.js lines 527-531):    *)
(* faker and Math.random start their streams again, uuidv7 does not.       *)
Rerun ==
  /\ pc = "returned"
  /\ seeded
  /\ run = 1
  /\ first' = Dataset
  /\ run' = 2
  /\ rngPos' = 0
  /\ fakerPos' = 0
  /\ pc' = "generateData"
  /\ n_offers' = args.n_offers
  /\ categories' = <<>> /\ products' = <<>> /\ stores' = <<>> /\ offers' = <<>>
  /\ warnings' = <<>>
  /\ UNCHANGED <<args, usedCatNames, name, usedEans, cur, usedStoreNames,
                 usedUrls, scand, allPairs, i, sampled, error, uuidClock,
                 seeded, rngLog, fakerLog, csvVars, dbVars, cellVars, implVars, auxVars, eanVars>>

(* The generator of unnamed/part_000 run after that of seed.js, on the     *)
(* same counts and the same draws of rng and faker.                        *)
RunOther ==
  /\ pc = "returned"
  /\ seeded
  /\ run = 1
  /\ first' = Dataset
  /\ run' = 2
  /\ impl' = Part000
  /\ UNCHANGED mode
  /\ rngPos' = 0
  /\ fakerPos' = 0
  /\ pc' = "generateData"
  /\ n_offers' = args.n_offers
  /\ categories' = <<>> /\ products' = <<>> /\ stores' = <<>> /\ offers' = <<>>
  /\ warnings' = <<>>
  /\ UNCHANGED <<args, usedCatNames, name, usedEans, cur, usedStoreNames,
                 usedUrls, scand, allPairs, i, sampled, error, uuidClock,
                 seeded, rngLog, fakerLog, csvVars, dbVars, cellVars, auxVars, eanVars>>

(* A second call of generateData in the same process, with the same counts *)
(* and an rng argument that returns the sequence of the first call again    *)
(* (lines 97, 489-495); nothing outside the call is reset.                  *)
Recall ==
  /\ pc = "returned"
  /\ seeded
  /\ run = 1
  /\ first' = Dataset
  /\ run' = 3
  /\ rngPos' = 0
  /\ fakerPos' = 0
  /\ pc' = "generateData"
  /\ n_offers' = args.n_offers
  /\ categories' = <<>> /\ products' = <<>> /\ stores' = <<>> /\ offers' = <<>>
  /\ warnings' = <<>>
  /\ UNCHANGED <<args, usedCatNames, name, usedEans, cur, usedStoreNames,
                 usedUrls, scand, allPairs, i, sampled, error, uuidClock,
                 seeded, rngLog, fakerLog, csvVars, dbVars, cellVars, implVars, auxVars, eanVars>>

-----------------------------------------------------------------------------
(* A lone call of ean13(rng), one value of rng() at a time *)
NonZero(s) == Cardinality({ k \in DOMAIN s : s[k] # 0 })

\* line 83: one call of rng()
EanDraw ==
  /\ pc = "ean13"
  /\ Len(eanStream) < EanLen
  /\ \E r \in DigitRng :
       /\ NonZero(Append(eanStream, r)) <= MaxNonZero
       /\ eanStream' = Append(eanStream, r)
  /\ UNCHANGED <<pc, genVars, uuidClock, seedVars, csvVars, dbVars, cellVars, implVars,
                 auxVars, eanOut>>

\* lines 84-87
EanReturn ==
  /\ pc = "ean13"
  /\ Len(eanStream) = EanLen
  /\ eanOut' = ean13(eanStream)
  /\ pc' = "ean13_done"
  /\ UNCHANGED <<genVars, uuidClock, seedVars, csvVars, dbVars, cellVars, implVars,
                 auxVars, eanStream>>

-----------------------------------------------------------------------------
(* The callers' arguments: non-negative counts *)
Args ==
  { a \in [n_categories : 0..MaxCategories, n_products : 0..MaxProducts,
           n_stores : 0..MaxStores, n_offers : 0..MaxOffers] :
      a.n_stores * a.n_products <= MaxPairs }

InitGen(a) ==
  /\ args = a
  /\ n_offers = a.n_offers
  /\ categories = <<>> /\ usedCatNames = {} /\ name = NoName
  /\ products = <<>> /\ usedEans = {} /\ cur = NoCur
  /\ stores = <<>> /\ usedStoreNames = {} /\ usedUrls = {} /\ scand = NoCand
  /\ allPairs = <<>> /\ i = 0 /\ sampled = <<>> /\ offers = <<>>
  /\ warnings = <<>>
  /\ error = NoError

InitMachine(value, sh) ==
  /\ uuidClock = 0
  /\ run = 1
  /\ rngLog = <<>> /\ fakerLog = <<>> /\ rngPos = 0 /\ fakerPos = 0
  /\ first = EmptyData
  /\ loaded = [status |-> "none", data |-> EmptyData]
  /\ db = [c \in Tables \cup Collections |-> <<>>]
  /\ cell = value /\ text = <<>> /\ parsed = <<>>
  /\ sheet = sh
  /\ impl = SeedJs
  /\ eanStream = <<>>
  /\ eanOut = <<>>

InitRest == InitMachine(<<>>, NoSheet) /\ mode = "CSV_DUMP_AND_LOAD" /\ AuxIdle

\* ./output before the run: absent, or present with some of the four files
NoOutput ==
  /\ outputDir = FALSE
  /\ files = [f \in FileNames |-> NoFile]
HeaderLine(f) ==
  CASE f = "categories.csv" -> arrayToCSV(CategoryHeaders, <<>>)
    [] f = "products.csv"   -> arrayToCSV(ProductHeaders, <<>>)
    [] f = "stores.csv"     -> arrayToCSV(StoreHeaders, <<>>)
    [] f = "offers.csv"     -> arrayToCSV(OfferHeaders, <<>>)
SomeOutput ==
  \/ NoOutput
  \/ /\ outputDir = TRUE
     /\ \E present \in SUBSET FileNames :
          files = [f \in FileNames |-> IF f \in present THEN HeaderLine(f) ELSE NoFile]
NoArgs == [n_categories |-> 0, n_products |-> 0, n_stores |-> 0, n_offers |-> 0]

\* main in a mode that generates (lines 487-498), or in LOAD_FROM_CSV_ONLY
\* (lines 500-504)
Init ==
  /\ \/ /\ pc = "generateData"
        /\ \E a \in Args : InitGen(a)
        /\ NoOutput
        /\ mode = "CSV_DUMP_AND_LOAD"
     \/ /\ pc = "getData_load"
        /\ InitGen(NoArgs)
        /\ SomeOutput
        /\ mode = "LOAD_FROM_CSV_ONLY"
  /\ seeded = FALSE
  /\ InitMachine(<<>>, NoSheet)
  /\ AuxIdle

Generate ==
  \/ Validate
  \/ CategoryDraw \/ CategoryTest \/ CategoriesDone
  \/ ProductDraw \/ EanRedraw \/ ProductPush \/ ProductsDone
  \/ StoreDraw \/ StoreTest \/ StoresDone
  \/ ShuffleStep \/ Sample
  \/ OfferStep \/ OffersDone
  \/ Return

Next == Generate \/ DataCheck \/ WriteAllToCSVs \/ ReadAllFromCSVs

Spec == Init /\ [][Next]_vars

(* Two runs with the same seed *)
InitSeeded ==
  /\ pc = "generateData"
  /\ \E a \in Args : InitGen(a)
  /\ seeded = TRUE
  /\ InitRest
  /\ NoOutput

NextSeeded == Generate \/ Rerun

SpecSeeded == InitSeeded /\ [][NextSeeded]_vars

(* The loaders, called one after the other on a generated dataset.  main   *)
(* has load_pg = false (line 544); here loadPostgres may run or be skipped. *)
LoadArgs ==
  { a \in Args : /\ a.n_categories = 1 /\ a.n_products >= 1
                  /\ a.n_stores >= 1 /\ a.n_offers <= 2 }

InitLoad ==
  /\ pc = "generateData"
  /\ \E a \in LoadArgs : InitGen(a)
  /\ seeded = FALSE
  /\ InitRest
  /\ NoOutput

NextLoad ==
  \/ Generate \/ DataCheck \/ WriteAllToCSVs
  \/ LoadPostgres
  \/ \E useIndex \in BOOLEAN : LoadMongoEmbedded(useIndex)
  \/ \E useIndex \in BOOLEAN : LoadMongoReferencing(useIndex)

SpecLoad == InitLoad /\ [][NextLoad]_vars

(* Two calls with rng arguments that return the same values.  seeded here  *)
(* says that the values of the first call are kept for the second.         *)
InitInjected ==
  /\ pc = "generateData"
  /\ \E a \in Args : InitGen(a)
  /\ seeded = TRUE
  /\ InitRest
  /\ NoOutput

NextInjected == Generate \/ Recall

SpecInjected == InitInjected /\ [][NextInjected]_vars

(* The two generators on the same counts and the same draws *)
InitTwin ==
  /\ pc = "generateData"
  /\ \E a \in Args : InitGen(a)
  /\ seeded = TRUE
  /\ InitRest
  /\ NoOutput

NextTwin == Generate \/ RunOther

SpecTwin == InitTwin /\ [][NextTwin]_vars

(* generateData under a fair random source: every step that can be taken   *)
(* is taken, and a candidate that can be drawn again and again is drawn.   *)
(* The counts go one past the number of category names the source has;     *)
(* neither products nor offers are asked for, so the loops that run are    *)
(* those of the category names and of the stores.                          *)
CategoryNames == { CategoryName(noun) : noun \in Nouns }
FairArgs ==
  [n_categories : 0..(Cardinality(CategoryNames) + 1), n_products : {0},
   n_stores : 0..MaxStores, n_offers : {0}]

InitFair ==
  /\ pc = "generateData"
  /\ \E a \in FairArgs : InitGen(a)
  /\ seeded = FALSE
  /\ InitRest
  /\ NoOutput

NextFair ==
  \/ Validate
  \/ CategoryDraw \/ CategoryTest \/ CategoriesDone
  \/ ProductsDone
  \/ StoreDraw \/ StoreTest \/ StoresDone
  \/ Return

FairSource ==
  /\ \A noun \in Nouns : SF_vars(CategoryDraw /\ name' = CategoryName(noun))
  /\ \A company \in Companies, domain \in Domains, slug \in Slugs :
       SF_vars(StoreDraw /\ scand' = [sname |-> StoreName(company),
                                     url |-> StoreUrl(domain, slug)])

SpecFair == InitFair /\ [][NextFair]_vars /\ WF_vars(NextFair) /\ FairSource

(* a cell written and read back *)
InitCell ==
  /\ pc = "escapeCSV"
  /\ InitGen(NoArgs)
  /\ seeded = FALSE
  /\ \E c \in Strings(MaxCell) : InitMachine(c, NoSheet)
  /\ mode = "CSV_DUMP_AND_LOAD"
  /\ AuxIdle
  /\ NoOutput

NextCell == EscapeCell \/ ParseCell

SpecCell == InitCell /\ [][NextCell]_vars

(* main of seed.js in every mode; load_pg is false (line 544), so that      *)
(* loadPostgres is never called                                           *)
MainArgs == { a \in Args : a.n_categories <= 1 /\ a.n_offers <= 1 }

InitMain ==
  /\ pc = "main"
  /\ \E a \in MainArgs : InitGen(a)
  /\ seeded = FALSE
  /\ InitMachine(<<>>, NoSheet)
  /\ mode \in SelectedModes
  /\ AuxIdle
  /\ NoOutput

NextMain ==
  \/ MainStart \/ Generate \/ GetDataLoad \/ DataCheck
  \/ WriteAllToCSVs \/ MainSkipLoad
  \/ \E useIndex \in BOOLEAN : LoadMongoEmbedded(useIndex)
  \/ \E useIndex \in BOOLEAN : LoadMongoReferencing(useIndex)

SpecMain == InitMain /\ [][NextMain]_vars

(* loadPostgres called with arrays of 0 or 1 rows, and 0, 1 or 5001 offers *)
PgSizes == {0, 1, BatchCap + 1}
InitIdle(p) ==
  /\ pc = p
  /\ InitGen(NoArgs)
  /\ seeded = FALSE
  /\ InitMachine(<<>>, NoSheet)
  /\ mode = "CSV_DUMP_AND_LOAD"
  /\ NoOutput

InitPg ==
  /\ InitIdle("loadPostgres")
  /\ conn = NoConn /\ req = NoReq /\ ui = NoUi
  /\ \E sizes \in [1..Len(PgTables) -> PgSizes] :
       /\ \A t \in 1..(Len(PgTables) - 1) : sizes[t] <= 1
       /\ pg = [NoPg EXCEPT !.step = "connect", !.rows = sizes]

NextPg ==
  PgConnect \/ PgQuery \/ PgInsertBatch \/ PgInsertDone \/ PgRollback \/ PgEnd

SpecPg == InitPg /\ [][NextPg]_vars

(* insertMany alone: the call for one table, entered after TRUNCATE, with   *)
(* row counts around one and two full batches                              *)
BatchSizes ==
  {0, 1, 2, BatchCap - 1, BatchCap, BatchCap + 1, 2 * BatchCap, 2 * BatchCap + 1}
Entered(t, n) ==
  [NoPg EXCEPT
     !.step = "insert", !.k = t, !.connected = TRUE,
     !.rows = [j \in 1..Len(PgTables) |-> IF j = t THEN n ELSE 0],
     !.log = <<Query("BEGIN", "", 0)>>
               \o [j \in 1..Len(PgTables) |-> Query("CREATE", PgTables[j], 0)]
               \o <<Query("TRUNCATE", "", 0)>>]
InitBatch ==
  /\ InitIdle("insertMany")
  /\ conn = NoConn /\ req = NoReq /\ ui = NoUi
  /\ \E t \in 1..Len(PgTables), n \in BatchSizes : pg = Entered(t, n)

NextBatch == PgInsertBatch \/ PgInsertDone

SpecBatch == InitBatch /\ [][NextBatch]_vars

(* requests of the API that reach mongodb_client.js *)
InitConn ==
  /\ InitIdle("api")
  /\ AuxIdle

NextConn ==
  \/ \E c \in Callers, fn \in ClientFns : Call(c, fn)
  \/ ConnectSettles \/ PingSettles
  \/ \E c \in Callers : Resume(c)
  \/ \E c \in Callers : Over(c)

SpecConn == InitConn /\ [][NextConn]_vars

(* a paged request to each operation of each wrapper *)
InitPaging ==
  /\ InitIdle("api")
  /\ pg = NoPg /\ conn = NoConn /\ ui = NoUi
  /\ \E w \in Wrappers, op \in PagedOps, p \in QueryValues, l \in QueryValues :
       req = [NoReq EXCEPT !.step = "request", !.wrapper = w, !.op = op,
                           !.query = [page |-> p, limit |-> l]]

NextPaging == GetPageLimit \/ WrapperCall \/ ServiceReturn

SpecPaging == InitPaging /\ [][NextPaging]_vars

(* the admin page after it was mounted: the source is the one saved in      *)
(* localStorage (lines 113-117), and the first effect has started its fetch *)
InitUi ==
  /\ InitIdle("page")
  /\ pg = NoPg /\ conn = NoConn /\ req = NoReq
  /\ \E prefix \in Prefixes :
       ui = [NoUi EXCEPT
               !.prefix = prefix,
               !.reqs = <<[params |-> <<prefix, 1, 10>>, cancelled |-> FALSE,
                           state |-> "pending"]>>]

NextUi ==
  \/ ChangeParams
  \/ \E r \in 1..MaxRequests : Respond(r)
  \/ \E kind \in {"create", "edit", "delete"} : Submit(kind)
  \/ MutationResponds

SpecUi == InitUi /\ [][NextUi]_vars

(* the admin page with a user who changes neither source nor page nor page  *)
(* size; every request sent is answered in the end                          *)
NextStay ==
  \/ \E r \in 1..MaxRequests : Respond(r)
  \/ \E kind \in {"create", "edit", "delete"} : Submit(kind)
  \/ MutationResponds

SpecStay ==
  /\ InitUi
  /\ [][NextStay]_vars
  /\ \A r \in 1..MaxRequests : WF_vars(Respond(r))
  /\ WF_vars(MutationResponds)

(* a text of rows parsed *)
InitSheet ==
  /\ pc = "render"
  /\ InitGen(NoArgs)
  /\ seeded = FALSE
  /\ \E sh \in Sheets : InitMachine(<<>>, sh)
  /\ mode = "CSV_DUMP_AND_LOAD"
  /\ AuxIdle
  /\ NoOutput

NextSheet == RenderSheet \/ ParseCell

SpecSheet == InitSheet /\ [][NextSheet]_vars

(* ean13 alone *)
InitEan ==
  /\ pc = "ean13"
  /\ InitGen(NoArgs)
  /\ seeded = FALSE
  /\ InitRest
  /\ NoOutput

NextEan == EanDraw \/ EanReturn

SpecEan == InitEan /\ [][NextEan]_vars

-----------------------------------------------------------------------------
(* Properties *)

\* generateData has returned its four arrays (and main may have gone on)
Returned == pc \in {"returned", "exit", "main_write", "written", "read"}

Ids(seq) == { seq[k].id : k \in DOMAIN seq }
Pairwise(seq, F(_)) == \A a, b \in DOMAIN seq : a # b => F(seq[a]) # F(seq[b])
NameOf(x) == x.name
EanOf(x) == x.ean
PairOf(o) == <<o.store_id, o.product_id>>

\* C1: a call that returns gives min(requested n_offers, n_stores * n_products)
\* offers, and none when n_stores = 0 or n_products = 0
C1_OfferCount ==
  Returned =>
    /\ Len(offers) = Min(args.n_offers, args.n_stores * args.n_products)
    /\ (args.n_stores = 0 \/ args.n_products = 0) => Len(offers) = 0
\* more offers requested than pairs exist, and the pairs that exist are returned
C1_Witness ==
  /\ pc = "returned"
  /\ args.n_offers > args.n_stores * args.n_products
  /\ Len(offers) = 2

\* C2: every returned offer names a returned store and a returned product,
\* and no two offers name the same (store, product) pair
C2_OffersReferToPairsOnce ==
  Returned =>
    /\ \A k \in DOMAIN offers :
         /\ offers[k].store_id \in Ids(stores)
         /\ offers[k].product_id \in Ids(products)
    /\ Pairwise(offers, PairOf)
\* three offers over four pairs, the shuffle having moved the first pair away
C2_Witness ==
  /\ pc = "returned"
  /\ Len(offers) = 3
  /\ PairOf(offers[1]) # <<stores[1].id, products[1].id>>

\* C3: every returned product carries the id of a returned category, and no
\* product is ever built without a category (line 133's fallback)
C3_ProductsHaveCategory ==
  /\ Returned => \A k \in DOMAIN products : products[k].category_id \in Ids(categories)
  /\ pc = "ean" => cur.cat # Null
\* two products in two different categories
C3_Witness ==
  /\ pc = "returned"
  /\ Len(products) = 2
  /\ products[1].category_id # products[2].category_id

\* C4: with n_categories < 1 and n_products > 0 the call ends in the
\* configuration error, having created nothing and returned nothing
C4_ConfigError ==
  (args.n_categories < 1 /\ args.n_products > 0) =>
    /\ pc \in {"generateData", "threw"}
    /\ pc = "threw" => error = "ConfigError"
    /\ categories = <<>> /\ products = <<>> /\ stores = <<>> /\ offers = <<>>
    /\ uuidClock = 0
C4_Witness ==
  /\ pc = "threw"
  /\ error = "ConfigError"
  /\ args.n_categories = 0
  /\ args.n_products > 0

\* C5: a returned call has warned exactly when it returns fewer offers than
\* requested, and a call that warned has not thrown
C5_WarnsIffFewer ==
  /\ Returned => ((warnings # <<>>) <=> (Len(offers) < args.n_offers))
  /\ warnings # <<>> => (pc # "threw" /\ error = NoError)
\* the request was capped to the pairs that exist
C5_Witness ==
  /\ pc = "returned"
  /\ warnings = <<"cap">>
  /\ Len(offers) > 0
  /\ Len(offers) < args.n_offers

\* C6: a second run with the same seed and counts returns the same arrays:
\* same ids, same names, same order
C6_SameSeedSameData ==
  (run = 2 /\ pc = "returned") => Dataset = first

DigitVal(c) == (CHOOSE k \in DOMAIN DigitChars : DigitChars[k] = c) - 1
\* the weighted sum over the first twelve characters of a code: positions
\* 0, 2, .. count once, positions 1, 3, .. three times
Weighted(code) ==
  LET RECURSIVE W(_)
      W(k) == IF k > EanLen THEN 0
              ELSE (IF k % 2 = 1 THEN 1 ELSE 3) * DigitVal(code[k]) + W(k + 1)
  IN W(1)

\* C7: ean13 returns thirteen decimal digits, the first twelve the drawn
\* ones, the last (10 - (weighted sum mod 10)) mod 10
C7_Ean13Checksum ==
  pc = "ean13_done" =>
    /\ Len(eanOut) = EanLen + 1
    /\ \A k \in DOMAIN eanOut : eanOut[k] \in Range(DigitChars)
    /\ \A k \in 1..EanLen : DigitVal(eanOut[k]) = FloorMul(eanStream[k], 10)
    /\ DigitVal(eanOut[EanLen + 1]) = (10 - (Weighted(eanOut) % 10)) % 10
\* a weighted sum that is a positive multiple of 10: the check digit is 0
C7_Witness ==
  /\ pc = "ean13_done"
  /\ Len(eanOut) = EanLen + 1
  /\ Weighted(eanOut) > 0
  /\ Weighted(eanOut) % 10 = 0
  /\ eanOut[EanLen + 1] = "0"

\* C8: what readAllFromCSVs returns after writeAllToCSVs wrote a generated
\* dataset has the same entities, field for field, references included
C8_RoundTrip ==
  pc = "read" =>
    /\ loaded.status = "ok"
    /\ loaded.data.categories = categories
    /\ loaded.data.stores = stores
    /\ Len(loaded.data.products) = Len(products)
    /\ \A k \in DOMAIN products :
         /\ loaded.data.products[k].id = products[k].id
         /\ loaded.data.products[k].categoryId = products[k].category_id
         /\ loaded.data.products[k].ean = products[k].ean
         /\ loaded.data.products[k].name = products[k].name
         /\ loaded.data.products[k].retailPrice = products[k].retailPrice
    /\ Len(loaded.data.offers) = Len(offers)
    /\ \A k \in DOMAIN offers :
         /\ loaded.data.offers[k].storeId = offers[k].store_id
         /\ loaded.data.offers[k].productId = offers[k].product_id
         /\ loaded.data.offers[k].price = offers[k].price
         /\ loaded.data.offers[k].amount = offers[k].amount

\* C9: a returned call has n_products products with pairwise different EANs,
\* and while the drawn EAN is a used one no product is added
C9_UniqueEans ==
  /\ [](/\ Pairwise(products, EanOf)
        /\ Returned => Len(products) = args.n_products)
  /\ [][(pc = "ean" /\ cur.e \in usedEans) => products' = products]_vars
\* the EAN drawn for the second product is the first product's
C9_Witness ==
  /\ pc = "ean"
  /\ Len(products) = 1
  /\ cur.e = products[1].ean

\* C10: a returned call has n_categories categories with pairwise different
\* names, and a candidate equal to an accepted name is not added
C10_UniqueCategoryNames ==
  /\ [](/\ Pairwise(categories, NameOf)
        /\ Returned => Len(categories) = args.n_categories)
  /\ [][(pc = "category_test" /\ name \in usedCatNames)
          => categories' = categories]_vars
\* the candidate drawn for the second category is the first category's name
C10_Witness ==
  /\ pc = "category_test"
  /\ Len(categories) = 1
  /\ name = categories[1].name

UrlOf(x) == x.url

\* C11: a call that returns gives exactly n_stores stores with pairwise
\* distinct names and pairwise distinct urls; a candidate whose name or whose
\* url is already used is rejected, and a rejected candidate adds neither its
\* name nor its url to the used sets
C11_UniqueStores ==
  /\ [](/\ Pairwise(stores, NameOf)
        /\ Pairwise(stores, UrlOf)
        /\ (Returned => Len(stores) = args.n_stores))
  /\ [][(pc = "store_test" /\ (scand.sname \in usedStoreNames \/ scand.url \in usedUrls))
          => /\ pc' = "stores"
             /\ stores' = stores
             /\ usedStoreNames' = usedStoreNames
             /\ usedUrls' = usedUrls]_vars
\* a candidate with a fresh name and a used url has just been rejected: the
\* loop is back at its head with one store, and the name is still unused
C11_Witness ==
  /\ pc = "stores"
  /\ Len(stores) = 1
  /\ scand # NoCand
  /\ scand.sname \notin usedStoreNames
  /\ scand.url \in usedUrls

\* C12: every returned offer has an integer amount with 0 <= amount <= 250
C12_AmountRange ==
  Returned => \A k \in DOMAIN offers : offers[k].amount \in 0..250
\* both ends of the range are returned in one call
C12_Witness ==
  /\ pc = "returned"
  /\ \E a, b \in DOMAIN offers : offers[a].amount = 0 /\ offers[b].amount = 250

ProductOf(o) == CHOOSE p \in Range(products) : p.id = o.product_id

\* C13: the price of every returned offer is derived from the retail price
\* of the product the offer refers to, also after the shuffle: in cents,
\* 0 < round(0.6 * retail) <= price <= round(1.2 * retail)
C13_PriceFromRetail ==
  Returned =>
    \A k \in DOMAIN offers :
      /\ offers[k].product_id \in Ids(products)
      /\ 0 < RoundDiv(3 * ProductOf(offers[k]).retailPrice, 5)
      /\ RoundDiv(3 * ProductOf(offers[k]).retailPrice, 5) <= offers[k].price
      /\ offers[k].price <= RoundDiv(6 * ProductOf(offers[k]).retailPrice, 5)
\* two products of different retail price; the first offer, moved to the
\* front by the shuffle, is for the second product and sits at its lower end
C13_Witness ==
  /\ pc = "returned"
  /\ Len(products) = 2
  /\ products[1].retailPrice # products[2].retailPrice
  /\ Len(offers) >= 2
  /\ offers[1].product_id = products[2].id
  /\ offers[1].price = RoundDiv(3 * products[2].retailPrice, 5)
  /\ offers[2].product_id = products[1].id

Loading ==
  pc \in {"written", "loaded_pg", "loaded_embedded", "loaded_embedded_index",
          "loaded_referencing"}

\* C14: no loader changes the categories, products, stores or offers it is
\* given: across every step of loadPostgres, loadMongoEmbedded and
\* loadMongoReferencing the four arrays keep their elements, order and fields
C14_LoadersLeaveArrays == [][Loading => Dataset' = Dataset]_vars
\* all loaders have run on two stores with offers, and the embedded and the
\* referencing collections are filled
C14_Witness ==
  /\ pc = "loaded"
  /\ Len(stores) = 2
  /\ Len(offers) >= 2
  /\ Len(db["o_offers"]) = Len(offers)
  /\ Len(db[EmbeddedName(TRUE)]) = 2
  /\ Len(db[RefName("o_offers", TRUE)]) = Len(offers)

\* readAllFromCSVs has run to its end, by return or by throw
ReadDone == pc \in {"read", "getData_threw"}
ArrayOf(f) ==
  CASE f = "categories.csv" -> loaded.data.categories
    [] f = "products.csv"   -> loaded.data.products
    [] f = "stores.csv"     -> loaded.data.stores
    [] f = "offers.csv"     -> loaded.data.offers

\* C15: readAllFromCSVs raises no error over missing input: without the
\* output directory it returns four empty arrays, and for each of the four
\* files that does not exist it returns an empty array
C15_MissingInputIsEmpty ==
  (ReadDone /\ \E f \in FileNames : files[f] = NoFile) =>
    /\ loaded.status = "ok"
    /\ ~outputDir => loaded.data = EmptyData
    /\ \A f \in FileNames : files[f] = NoFile => ArrayOf(f) = <<>>

HasSpecial(s) == \E k \in DOMAIN s : s[k] = "," \/ s[k] = "\"" \/ s[k] = "\r" \/ s[k] = "\n"
QuoteCount(s) == Cardinality({ k \in DOMAIN s : s[k] = "\"" })
\* every pair of double quotes read as one
RECURSIVE Halve(_)
Halve(s) ==
  IF s = <<>> THEN <<>>
  ELSE IF s[1] = "\"" /\ Len(s) >= 2 /\ s[2] = "\"" THEN <<"\"">> \o Halve(Tail(Tail(s)))
  ELSE <<s[1]>> \o Halve(Tail(s))
\* the escaped cell: the line without its line feed
Escaped == SubSeq(text, 1, Len(text) - 1)
\* the cell is in double quotes exactly when it holds a comma, a double
\* quote, a carriage return or a line feed, with every quote doubled; any
\* other cell is written as it is
QuotedWhenSpecial ==
  IF HasSpecial(cell)
  THEN /\ Len(Escaped) = Len(cell) + QuoteCount(cell) + 2
       /\ Escaped[1] = "\"" /\ Escaped[Len(Escaped)] = "\""
       /\ Halve(SubSeq(Escaped, 2, Len(Escaped) - 1)) = cell
  ELSE Escaped = cell
BomFirst(s) == s # <<>> /\ s[1] = Bom

\* C16: escapeCSV quotes a cell exactly when it holds a comma, a double
\* quote, a carriage return or a line feed and doubles its quotes, writes
\* any other cell verbatim, and for every string s parseCSV of the escaped
\* cell followed by a line feed returns the single cell s
C16_EscapeParse ==
  /\ pc \in {"parseCSV", "parsed"} => QuotedWhenSpecial
  /\ pc = "parsed" => parsed = <<<<cell>>>>
\* C16, amended: the same, except that a cell that begins with U+FEFF and
\* needs no quotes comes back without that first character
C16_EscapeParseButBom ==
  /\ pc \in {"parseCSV", "parsed"} => QuotedWhenSpecial
  /\ pc = "parsed" =>
       parsed = IF BomFirst(cell) /\ ~HasSpecial(cell) THEN <<<<Tail(cell)>>>>
                ELSE <<<<cell>>>>
\* a cell with a quote, a comma and a line feed has come back whole
C16_Witness ==
  /\ pc = "parsed"
  /\ cell = <<"\"", ",", "\n">>
  /\ Len(text) = 7
  /\ parsed = <<<<cell>>>>

Ended == pc \in {"returned", "threw"}

\* C17: every call of generateData ends, by return or by throw, whatever
\* its input, when the random source is fair
C17_Terminates == <>Ended

\* C19: the retry loops give up after a maximum number of attempts: a call
\* that asks for more distinct category names than the source can produce
\* ends in a generation error
C19_GenerationError ==
  (args.n_categories > Cardinality(CategoryNames)) =>
     <>(pc = "threw" /\ error = "GenerationError")

IsPermutation(s, t) ==
  /\ Len(s) = Len(t)
  /\ \E f \in [DOMAIN s -> DOMAIN t] :
       /\ \A a, b \in DOMAIN s : a # b => f[a] # f[b]
       /\ \A a \in DOMAIN s : s[a] = t[f[a]]
\* the shuffle loop from i = k down to 1 with the random values rs[k], ..., rs[1]
RECURSIVE ShuffleFrom(_, _, _)
ShuffleFrom(s, k, rs) ==
  IF k <= 0 THEN s ELSE ShuffleFrom(Swap(s, k, ShuffleIndex(rs[k], k)), k - 1, rs)
RandomValues(n) == [1..n -> ShuffleRng]
AllPairs == CrossProduct(stores, products)

\* C18: through and after the shuffle loop the pair list is a permutation of
\* the store x product cross product; the n_offers pairs taken are its first
\* n_offers entries, pairwise distinct; and when the loop starts, every set
\* of n_offers pairs is what some choice of random values leaves in front
C18_ShufflePermutes ==
  /\ pc \in {"shuffle", "offers"} => IsPermutation(allPairs, AllPairs)
  /\ pc = "offers" =>
       /\ Len(sampled) = n_offers
       /\ sampled = SubSeq(allPairs, 1, n_offers)
       /\ \A a, b \in DOMAIN sampled : a # b => sampled[a] # sampled[b]
  /\ (pc = "shuffle" /\ i = 0) =>
       \E rs \in RandomValues(Len(AllPairs) - 1) :
          allPairs = ShuffleFrom(AllPairs, Len(AllPairs) - 1, rs)
  /\ (pc = "shuffle" /\ i = Len(allPairs) - 1) =>
       \A S \in SUBSET Range(allPairs) :
          Cardinality(S) = n_offers =>
            \E rs \in RandomValues(i) :
               Range(SubSeq(ShuffleFrom(allPairs, i, rs), 1, n_offers)) = S
\* of four pairs the two taken are the last two of the cross product
C18_Witness ==
  /\ pc = "offers"
  /\ Len(allPairs) = 4
  /\ Range(sampled) = {AllPairs[3], AllPairs[4]}

\* what the claim compares: names, urls, EANs, prices, amounts, in order
Content(d) ==
  [categories |-> [k \in DOMAIN d.categories |-> d.categories[k].name],
   products   |-> [k \in DOMAIN d.products |->
                     <<d.products[k].name, d.products[k].ean, d.products[k].retailPrice>>],
   stores     |-> [k \in DOMAIN d.stores |-> <<d.stores[k].name, d.stores[k].url>>],
   offers     |-> [k \in DOMAIN d.offers |-> <<d.offers[k].price, d.offers[k].amount>>]]

\* C20: a second call with the same counts and an rng that returns the same
\* values returns the same names, urls, EANs, prices and amounts in the same
\* order, whatever the state outside the call
C20_PureOverRng ==
  (run = 3 /\ pc = "returned") => Content(Dataset) = Content(first)

\* the position of the entity with the given id, 0 when there is none
IndexOf(seq, id) ==
  IF \E k \in DOMAIN seq : seq[k].id = id
  THEN CHOOSE k \in DOMAIN seq : seq[k].id = id
  ELSE 0
\* a dataset with every id replaced by the position of its entity
CanonSnake(d) ==
  [categories |-> [k \in DOMAIN d.categories |-> d.categories[k].name],
   products |-> [k \in DOMAIN d.products |->
      <<IndexOf(d.categories, d.products[k].category_id), d.products[k].ean,
        d.products[k].name, d.products[k].retailPrice>>],
   stores |-> [k \in DOMAIN d.stores |-> <<d.stores[k].name, d.stores[k].url>>],
   offers |-> [k \in DOMAIN d.offers |->
      <<IndexOf(d.stores, d.offers[k].store_id),
        IndexOf(d.products, d.offers[k].product_id),
        d.offers[k].price, d.offers[k].amount>>]]
CanonCamel(d) ==
  [categories |-> [k \in DOMAIN d.categories |-> d.categories[k].name],
   products |-> [k \in DOMAIN d.products |->
      <<IndexOf(d.categories, d.products[k].categoryId), d.products[k].ean,
        d.products[k].name, d.products[k].retailPrice>>],
   stores |-> [k \in DOMAIN d.stores |-> <<d.stores[k].name, d.stores[k].url>>],
   offers |-> [k \in DOMAIN d.offers |->
      <<IndexOf(d.stores, d.offers[k].storeId),
        IndexOf(d.products, d.offers[k].productId),
        d.offers[k].price, d.offers[k].amount>>]]
IdOf(x) == x.id
DistinctIds(d) ==
  /\ Pairwise(d.categories, IdOf) /\ Pairwise(d.products, IdOf)
  /\ Pairwise(d.stores, IdOf)

\* C21: the generator of unnamed/part_000, run on the counts and the draws
\* of a run of seeding/seed.js, returns the same dataset once ids are
\* replaced one-to-one and category_id, store_id, product_id are read as
\* categoryId, storeId, productId
C21_SameUpToIds ==
  (impl = Part000 /\ pc = "returned") =>
    /\ DistinctIds(Dataset) /\ DistinctIds(first)
    /\ CanonCamel(Dataset) = CanonSnake(first)
\* both have returned a product, two stores and two offers, the second
\* under ids of its own and with the offer of the second store in front
C21_Witness ==
  /\ impl = Part000
  /\ pc = "returned"
  /\ Len(products) = 1 /\ Len(stores) = 2 /\ Len(offers) = 2
  /\ products[1].id # first.products[1].id
  /\ offers[1].storeId = stores[2].id


\* C22: parseCSV reads the same rows from a text whose rows end in LF as
\* from the same text with rows ending in CRLF; a CR or LF inside a quoted
\* cell stays in the cell's value; a terminator after the last row adds no
\* empty row.
OtherEol(sh) ==
  [sh EXCEPT !.eol = IF sh.eol = <<"\n">> THEN <<"\r", "\n">> ELSE <<"\n">>]
C22_RowsAcrossTerminators ==
  pc = "parsed" =>
    /\ parsed = parseCSV(Render(OtherEol(sheet)))
    /\ sheet.final => parsed = sheet.rows
    /\ \A r \in DOMAIN parsed : parsed[r] = sheet.rows[r]
    /\ Len(parsed) <= Len(sheet.rows)
C22_Witness ==
  /\ pc = "parsed"
  /\ sheet.final
  /\ sheet.eol = <<"\r", "\n">>
  /\ Len(sheet.rows) = 2
  /\ sheet.rows[1] = << <<"\r">>, <<"\n">> >>
  /\ parsed = sheet.rows

\* C23: loadMongoEmbedded builds one document per store of the dataset, also
\* for a store without offers; every offer is nested exactly once, in the
\* document of its own store, with its product's id, ean, name and retail
\* price and its own price and amount; the embedded offers of all documents
\* together are as many as the offers
RECURSIVE EmbeddedCount(_)
EmbeddedCount(docs) ==
  IF docs = <<>> THEN 0 ELSE Len(Head(docs).offers) + EmbeddedCount(Tail(docs))
Nestings(docs, o) ==
  { <<k, m>> \in (DOMAIN docs) \X (1..MaxOffers) :
      /\ m \in DOMAIN docs[k].offers
      /\ docs[k].id = o.store_id
      /\ docs[k].offers[m].product.id = o.product_id }
Carries(e, o) ==
  /\ e.product.ean = ProductOf(o).ean
  /\ e.product.name = ProductOf(o).name
  /\ e.product.product_id = ProductOf(o).retailPrice
  /\ e.price = o.price
  /\ e.amount = o.amount
EmbeddedLoaded(u) == Loading /\ db[EmbeddedName(u)] # <<>>
Changed == { c \in DOMAIN db : db'[c] # db[c] }
OneLoader ==
  \E u \in BOOLEAN :
    \/ Changed \subseteq {EmbeddedName(u)}
    \/ Changed \subseteq { RefName(b, u) : b \in RefBases }
Written == outputDir /\ \A f \in FileNames : files[f] # NoFile
C24_ModeOrder ==
  [][ /\ mode \notin {"CSV_DUMP_ONLY", "CSV_DUMP_AND_LOAD", "LOAD_FROM_CSV_ONLY"} =>
           /\ pc' \in {"main", "exit"}
           /\ Dataset' = Dataset /\ rngLog' = rngLog /\ fakerLog' = fakerLog
           /\ files' = files /\ outputDir' = outputDir /\ db' = db
      /\ (files' # files \/ outputDir' # outputDir) =>
           /\ mode \in {"CSV_DUMP_ONLY", "CSV_DUMP_AND_LOAD"}
           /\ pc = "main_write"
           /\ ~DataMissing(Dataset)
      /\ db' # db =>
           /\ mode \in {"CSV_DUMP_AND_LOAD", "LOAD_FROM_CSV_ONLY"}
           /\ OneLoader
           /\ mode = "CSV_DUMP_AND_LOAD" => Written
           /\ ~DataMissing(Dataset)
      /\ pc \in {"written", "loaded_embedded", "loaded_embedded_index",
                  "loaded_referencing"} /\ pc' # "exit" =>
           mode \in {"CSV_DUMP_AND_LOAD", "LOAD_FROM_CSV_ONLY"}
    ]_vars
\* CSV_DUMP_AND_LOAD: written, then every loader has run and filled its collections
C24_Witness ==
  /\ pc = "loaded"
  /\ mode = "CSV_DUMP_AND_LOAD"
  /\ Written
  /\ db[EmbeddedName(FALSE)] # <<>> /\ db[EmbeddedName(TRUE)] # <<>>
  /\ db[RefName("s_stores", FALSE)] # <<>> /\ db[RefName("s_stores", TRUE)] # <<>>

\* C25: loadPostgres is all-or-nothing: after a successful connect COMMIT is
\* issued only after the table creation, the truncation, all four inserts
\* and the four counts; if one of these steps fails ROLLBACK is issued and
\* COMMIT never; in both cases the connection is closed exactly once; when
\* connect fails no query is issued at all
Issued(sql) == { j \in DOMAIN pg.log : pg.log[j].sql = sql }
IssuedFor(sql, t) == { j \in Issued(sql) : pg.log[j].table = PgTables[t] }
RECURSIVE RowsOf(_)
RowsOf(js) ==
  IF js = {} THEN 0
  ELSE LET j == CHOOSE x \in js : TRUE IN pg.log[j].rows + RowsOf(js \ {j})
Before(a, b) == \A x \in a, y \in b : x < y
C25_AllOrNothing ==
  /\ Issued("COMMIT") # {} =>
       /\ Cardinality(Issued("BEGIN")) = 1 /\ Cardinality(Issued("TRUNCATE")) = 1
       /\ \A t \in DOMAIN PgTables :
            /\ Cardinality(IssuedFor("CREATE", t)) = 1
            /\ Cardinality(IssuedFor("COUNT", t)) = 1
            /\ RowsOf(IssuedFor("INSERT", t)) = pg.rows[t]
       /\ Before(Issued("BEGIN"), Issued("CREATE"))
       /\ Before(Issued("CREATE"), Issued("TRUNCATE"))
       /\ Before(Issued("TRUNCATE"), Issued("INSERT") \cup Issued("COUNT"))
       /\ Before(Issued("INSERT"), Issued("COUNT"))
       /\ Before(Issued("COUNT"), Issued("COMMIT"))
  /\ pg.failed \in {"CREATE", "TRUNCATE", "INSERT", "COUNT"} =>
       /\ Issued("COMMIT") = {}
       /\ pg.step = "done" => Cardinality(Issued("ROLLBACK")) = 1
  /\ pg.ended <= 1
  /\ (pg.step = "done" /\ pg.connected) => pg.ended = 1
  /\ ~pg.connected => pg.log = <<>>
\* the second batch of the offers fails: rolled back, closed once
C25_Witness ==
  /\ pg.step = "done"
  /\ pg.failed = "INSERT"
  /\ Cardinality(IssuedFor("INSERT", 4)) = 2
  /\ pg.log[Len(pg.log)].sql = "ROLLBACK"
  /\ pg.ended = 1

\* C26: insertMany sends every row of its input in exactly one batch, in
\* input order; each batch holds at least one row and at most
\* min(floor(maxParams / columns), 5000); its placeholders are numbered
\* 1..(rows * columns) without a gap; the parameters are as many as the
\* placeholders and never more than maxParams = 60000
C26_Batches ==
  (pg.step \in {"insert", "rollback"} /\ pg.k \in DOMAIN PgCols) =>
    LET b == pg.batch
        perRow == Len(PgCols[pg.k])
        floor == 60000 \div perRow
    IN /\ b # NoBatch =>
            /\ Len(b.chunk) >= 1
            /\ Len(b.chunk) <= (IF floor < 5000 THEN floor ELSE 5000)
            /\ b.values[1][1] = 1
            /\ \A r \in DOMAIN b.values :
                 /\ Len(b.values[r]) = perRow
                 /\ \A c \in 1..(perRow - 1) : b.values[r][c + 1] = b.values[r][c] + 1
                 /\ r < Len(b.values) => b.values[r + 1][1] = b.values[r][perRow] + 1
            /\ Len(b.values) = Len(b.chunk)
            /\ Len(b.params) = Len(b.chunk) * perRow
            /\ Len(b.params) <= 60000
            /\ \A j \in DOMAIN b.params :
                 b.params[j][1] = b.chunk[(j - 1) \div perRow + 1]
       /\ pg.sent = [j \in 1..Len(pg.sent) |-> j]
       /\ Len(pg.sent) <= pg.rows[pg.k]
       /\ (pg.step = "insert" /\ pg.start >= pg.rows[pg.k]) =>
            Len(pg.sent) = pg.rows[pg.k]
\* 10001 products sent: two batches of 5000 and a third of one row
C26_Witness ==
  /\ pg.step = "insert"
  /\ pg.k = 2
  /\ Len(pg.sent) = 10001
  /\ Len(pg.batch.chunk) = 1
  /\ Cardinality(IssuedFor("INSERT", 2)) = 3

\* C27: for every interleaving of concurrent calls to getClient, getEmbeddedDb
\* and getReferencingDb, client.connect() is started at most once and every
\* caller waits for that one attempt; if the attempt fails the failure is
\* kept: every later call fails with the same error and connect is never
\* attempted again
C27_ConnectOnce ==
  /\ [](/\ conn.connects <= 1
        /\ \A c \in Callers :
             /\ conn.callers[c].state # "idle" => conn.callers[c].attempt = 1
             /\ conn.callers[c].state = "threw" =>
                  conn.ready = "failed" /\ conn.callers[c].error = conn.error
             /\ conn.callers[c].state = "returned" => conn.ready = "ok")
  /\ [][conn.ready = "failed" =>
          /\ conn'.ready = "failed"
          /\ conn'.error = conn.error
          /\ conn'.connects = conn.connects
          /\ \A c \in Callers : conn'.callers[c].state # "returned"]_vars
\* the ping failed; one caller has failed for the second time, the other,
\* which called while the attempt was pending, has failed as well
C27_Witness ==
  /\ conn.ready = "failed" /\ conn.error = "ping"
  /\ conn.connects = 1
  /\ conn.callers[1].state = "threw" /\ conn.callers[1].calls = 2
  /\ conn.callers[1].fn = "getClient"
  /\ conn.callers[2].state = "threw" /\ conn.callers[2].fn = "getReferencingDb"

\* C28: the wrapper objects pass the caller's limit and offset unchanged to
\* the service function for every operation, getOffersFromStore included,
\* so that a request for page p with limit l returns the items at positions
\* (p-1)*l .. p*l-1
C28_PagingPassed ==
  /\ req.step \in {"service", "responded"} =>
       /\ req.passed.limit = req.limit
       /\ req.passed.offset = req.offset
  /\ req.step = "responded" =>
       \A pos \in 0..(MaxItems - 1) :
         (\E j \in DOMAIN req.result : req.result[j] = pos)
           <=> (req.page - 1) * req.limit <= pos /\ pos <= req.page * req.limit - 1

\* C29: in useStores, for every interleaving of parameter changes and
\* responses, a response or error of a request started for earlier
\* parameters never updates rows, total, error or loading after the
\* parameters changed; the displayed rows always come from the most recent
\* request
Latest == Len(ui.reqs)
Displayed == ~ui.loading /\ ui.error = "none"
C29_NoStaleUpdate ==
  /\ [](Displayed => ui.rows.req = Latest /\ ui.reqs[Latest].params = Params(ui))
  /\ [][\A r \in DOMAIN ui.reqs :
          (r # Latest /\ ui.reqs[r].state = "pending" /\ ui'.reqs[r].state = "done") =>
            /\ ui'.rows = ui.rows /\ ui'.total = ui.total
            /\ ui'.error = ui.error /\ ui'.loading = ui.loading]_vars
\* the parameters changed twice; the first request was answered after it was
\* cancelled, and the rows displayed are those of the third
C29_Witness ==
  /\ Len(ui.reqs) = 3
  /\ ui.reqs[1].state = "done" /\ ui.reqs[2].state = "pending"
  /\ Displayed
  /\ ui.rows.req = 3 /\ ui.rows.items = "stores"

\* C30: after every successful create, edit or delete of a store, refetch()
\* has the store list requested again, so that the table eventually shows
\* the change without the user changing page, page size or source
C30_TableCatchesUp ==
  (ui.backend > ui.rows.version) ~> (~ui.loading /\ ui.rows.version = ui.backend)

====
